---- MODULE Spec2Model ----
(***************************************************************************)
(* A model of the bytecode core of the kong interpreter: the instruction   *)
(* codec (package code), the symbol table and the compiler (package        *)
(* compiler) and the stack virtual machine that runs the compiled code.    *)
(* Byte offsets are 0-based as in the Go source; TLA+ sequences are        *)
(* 1-based, so offset p of an instruction stream is element p + 1.         *)
(***************************************************************************)
EXTENDS Integers, Sequences, FiniteSets, TLC

VARIABLES
    \* code.Instructions.String(): receiver, loop index, output lines, position
    dIns, dI, dOut, dPc,
    \* the chain of symbol tables (st[1] has no Outer, st[Len(st)] is the
    \* current one) and the value returned by the last call on it
    st, ret, nCalls,
    \* a host run (main.go): the parsed program, how far the host is, the
    \* compile error, the bytecode of the compilation and of a second
    \* compilation of the same program, and the machine
    prog, phase, cerr, bc, bc2, vm,
    \* an instruction encoded by Make and decoded by ReadOperands: opcode,
    \* operands, the bytes made, what was read back, position
    codec,
    \* the REPL (repl.go, Start): the symbol table, constants and globals it
    \* keeps between inputs, the last input and what became of it
    repl,
    \* arrays on the heap of the host: the Array objects allocated, who
    \* holds a pointer to which, and the last call of a builtin on them
    arr,
    \* two hashable objects and the HashKey calls made on them
    hashed,
    \* a lexer (lexer.New) on one input and the tokens NextToken returned
    lex

disVars == <<dIns, dI, dOut, dPc>>
symVars == <<st, ret, nCalls>>
hostVars == <<prog, phase, cerr, bc, bc2, vm>>
\* what the disassembler leaves alone, what the symbol table does, and
\* what a host run does
notDis == <<st, ret, nCalls, prog, phase, cerr, bc, bc2, vm, codec, repl, arr, hashed, lex>>
notSym == <<dIns, dI, dOut, dPc, prog, phase, cerr, bc, bc2, vm, codec, repl, arr, hashed, lex>>
notHost == <<dIns, dI, dOut, dPc, st, ret, nCalls, codec, repl, arr, hashed, lex>>
notCodec == <<dIns, dI, dOut, dPc, st, ret, nCalls, prog, phase, cerr, bc, bc2, vm, repl, arr, hashed, lex>>
vars == <<dIns, dI, dOut, dPc, st, ret, nCalls, prog, phase, cerr, bc, bc2, vm, codec, repl, arr, hashed, lex>>
notRepl == <<dIns, dI, dOut, dPc, st, ret, nCalls, prog, phase, cerr, bc, bc2, vm, codec, arr, hashed, lex>>
notArr == <<dIns, dI, dOut, dPc, st, ret, nCalls, prog, phase, cerr, bc, bc2, vm, codec, repl, hashed, lex>>
notHash == <<dIns, dI, dOut, dPc, st, ret, nCalls, prog, phase, cerr, bc, bc2, vm, codec, repl, arr, lex>>
notLex == <<dIns, dI, dOut, dPc, st, ret, nCalls, prog, phase, cerr, bc, bc2, vm, codec, repl, arr, hashed>>

(***************************************************************************)
(* Package code: opcodes and operand widths.                               *)
(***************************************************************************)
OpConstant == 0
OpAdd == 1
OpPop == 2
OpSub == 3
OpMul == 4
OpDiv == 5
OpTrue == 6
OpFalse == 7
OpEqual == 8
OpNotEqual == 9
OpGreaterThan == 10
OpMinus == 11
OpBang == 12
OpJumpNotTruthy == 13
OpJump == 14
OpNull == 15
OpGetGlobal == 16
OpSetGlobal == 17
OpArray == 18
OpHash == 19
OpIndex == 20
OpCall == 21
OpReturnValue == 22
OpReturn == 23
OpGetLocal == 24
OpSetLocal == 25
OpGetBuiltin == 26
OpClosure == 27
OpGetFree == 28
OpCurrentClosure == 29

\* the map of opcodes to their definitions (name, operand widths)
definitions ==
    [op \in 0..29 |->
        CASE op = OpConstant -> [Name |-> "OpConstant", OperandWidths |-> <<2>>]
          [] op = OpAdd -> [Name |-> "OpAdd", OperandWidths |-> <<>>]
          [] op = OpPop -> [Name |-> "OpPop", OperandWidths |-> <<>>]
          [] op = OpSub -> [Name |-> "OpSub", OperandWidths |-> <<>>]
          [] op = OpMul -> [Name |-> "OpMul", OperandWidths |-> <<>>]
          [] op = OpDiv -> [Name |-> "OpDiv", OperandWidths |-> <<>>]
          [] op = OpTrue -> [Name |-> "OpTrue", OperandWidths |-> <<>>]
          [] op = OpFalse -> [Name |-> "OpFalse", OperandWidths |-> <<>>]
          [] op = OpEqual -> [Name |-> "OpEqual", OperandWidths |-> <<>>]
          [] op = OpNotEqual -> [Name |-> "OpNotEqual", OperandWidths |-> <<>>]
          [] op = OpGreaterThan -> [Name |-> "OpGreaterThan", OperandWidths |-> <<>>]
          [] op = OpMinus -> [Name |-> "OpMinus", OperandWidths |-> <<>>]
          [] op = OpBang -> [Name |-> "OpBang", OperandWidths |-> <<>>]
          [] op = OpJumpNotTruthy -> [Name |-> "OpJumpNotTruthy", OperandWidths |-> <<2>>]
          [] op = OpJump -> [Name |-> "OpJump", OperandWidths |-> <<2>>]
          [] op = OpNull -> [Name |-> "OpNull", OperandWidths |-> <<>>]
          [] op = OpGetGlobal -> [Name |-> "OpGetGlobal", OperandWidths |-> <<2>>]
          [] op = OpSetGlobal -> [Name |-> "OpSetGlobal", OperandWidths |-> <<2>>]
          [] op = OpArray -> [Name |-> "OpArray", OperandWidths |-> <<2>>]
          [] op = OpHash -> [Name |-> "OpHash", OperandWidths |-> <<2>>]
          [] op = OpIndex -> [Name |-> "OpIndex", OperandWidths |-> <<>>]
          [] op = OpCall -> [Name |-> "OpCall", OperandWidths |-> <<1>>]
          [] op = OpReturnValue -> [Name |-> "OpReturnValue", OperandWidths |-> <<>>]
          [] op = OpReturn -> [Name |-> "OpReturn", OperandWidths |-> <<>>]
          [] op = OpGetLocal -> [Name |-> "OpGetLocal", OperandWidths |-> <<1>>]
          [] op = OpSetLocal -> [Name |-> "OpSetLocal", OperandWidths |-> <<1>>]
          [] op = OpGetBuiltin -> [Name |-> "OpGetBuiltin", OperandWidths |-> <<1>>]
          [] op = OpClosure -> [Name |-> "OpClosure", OperandWidths |-> <<2, 1>>]
          [] op = OpGetFree -> [Name |-> "OpGetFree", OperandWidths |-> <<1>>]
          [] OTHER -> [Name |-> "OpCurrentClosure", OperandWidths |-> <<>>]]

\* Lookup(op): the definition, or the error "opcode %d undefined"
Lookup(op) ==
    IF op \in DOMAIN definitions
    THEN [ok |-> TRUE, def |-> definitions[op]]
    ELSE [ok |-> FALSE, def |-> [Name |-> "", OperandWidths |-> <<>>]]

\* ins[from:] of a Go slice, from a 0-based offset
SliceFrom(ins, from) == SubSeq(ins, from + 1, Len(ins))

\* PutOperand that writes a 2-byte operand low byte first
PutOperand_LittleEndian(width, operand) ==
    IF width = 1 THEN <<operand % 256>>
    ELSE <<operand % 256, (operand % 65536) \div 256>>

\* the bytes of one operand: byte(operand), or big-endian uint16(operand)
PutOperand(width, operand) ==
    IF width = 1 THEN <<operand % 256>>
    ELSE <<(operand % 65536) \div 256, operand % 256>>

RECURSIVE MakeOperands(_, _, _)
MakeOperands(widths, operands, i) ==
    IF i > Len(widths) THEN <<>>
    ELSE PutOperand(widths[i], IF i <= Len(operands) THEN operands[i] ELSE 0)
            \o MakeOperands(widths, operands, i + 1)

\* Make(op, operands...): the encoded instruction
Make(op, operands) ==
    IF op \notin DOMAIN definitions THEN <<>>
    ELSE <<op>> \o MakeOperands(definitions[op].OperandWidths, operands, 1)

ReadUint16(ins) == ins[1] * 256 + ins[2]

ReadUint8(ins) == ins[1]

\* ReadOperands(def, ins): the operands and the bytes read; reading past the
\* end of the slice panics (index out of range)
RECURSIVE ReadOperandsFrom(_, _, _, _)
ReadOperandsFrom(widths, ins, i, offset) ==
    IF i > Len(widths) THEN [panic |-> FALSE, operands |-> <<>>, read |-> offset]
    ELSE IF Len(ins) - offset < widths[i]
         THEN [panic |-> TRUE, operands |-> <<>>, read |-> offset]
         ELSE LET v == IF widths[i] = 1 THEN ReadUint8(SliceFrom(ins, offset))
                       ELSE ReadUint16(SliceFrom(ins, offset))
                  r == ReadOperandsFrom(widths, ins, i + 1, offset + widths[i])
              IN  [panic |-> r.panic,
                   operands |-> IF r.panic THEN <<>> ELSE <<v>> \o r.operands,
                   read |-> r.read]

ReadOperands(def, ins) == ReadOperandsFrom(def.OperandWidths, ins, 1, 0)

(***************************************************************************)
(* Package compiler: the symbol table.  A table is a record; its Outer     *)
(* pointer is the position of the enclosing table in the chain, 0 for nil. *)
(***************************************************************************)
GlobalScope == "GLOBAL"
LocalScope == "LOCAL"
BuiltinScope == "BUILTIN"
FreeScope == "FREE"
FunctionScope == "FUNCTION"

Symbol(name, scope, index) == [Name |-> name, Scope |-> scope, Index |-> index]

\* the zero Symbol{} a failed Resolve returns
ZeroSymbol == Symbol("", "", 0)

\* s.store[name] = symbol
StorePut(store, name, symbol) ==
    [n \in DOMAIN store \cup {name} |-> IF n = name THEN symbol ELSE store[n]]

EmptyStore == [n \in {} |-> ZeroSymbol]

NewSymbolTable == [Outer |-> 0, store |-> EmptyStore, numDefinitions |-> 0, FreeSymbols |-> <<>>]

\* outer is the position of the enclosing table
NewEnclosedSymbolTable(outer) == [NewSymbolTable EXCEPT !.Outer = outer]

\* Define that forgets to count the definition
Define_NoCount(s, name) ==
    LET symbol == Symbol(name, IF s.Outer = 0 THEN GlobalScope ELSE LocalScope, s.numDefinitions)
    IN  [table |-> [s EXCEPT !.store = StorePut(s.store, name, symbol)], sym |-> symbol]

\* Define(name) on table s: the changed table and the symbol returned
Define(s, name) ==
    LET symbol == Symbol(name, IF s.Outer = 0 THEN GlobalScope ELSE LocalScope, s.numDefinitions)
    IN  [table |-> [s EXCEPT !.store = StorePut(s.store, name, symbol),
                             !.numDefinitions = s.numDefinitions + 1],
         sym |-> symbol]

\* DefineBuiltin that counts the builtin as a definition
DefineBuiltin_Counts(s, index, name) ==
    LET symbol == Symbol(name, BuiltinScope, index)
    IN  [table |-> [s EXCEPT !.store = StorePut(s.store, name, symbol),
                             !.numDefinitions = s.numDefinitions + 1],
         sym |-> symbol]

DefineBuiltin(s, index, name) ==
    LET symbol == Symbol(name, BuiltinScope, index)
    IN  [table |-> [s EXCEPT !.store = StorePut(s.store, name, symbol)], sym |-> symbol]

\* defineFree that numbers the free symbol one too high
defineFree_IndexLen(s, original) ==
    LET free == Append(s.FreeSymbols, original)
        symbol == Symbol(original.Name, FreeScope, Len(free))
    IN  [table |-> [s EXCEPT !.FreeSymbols = free,
                             !.store = StorePut(s.store, original.Name, symbol)],
         sym |-> symbol]

\* defineFree that does not record the free symbol in the store
defineFree_NoStore(s, original) ==
    LET free == Append(s.FreeSymbols, original)
    IN  [table |-> [s EXCEPT !.FreeSymbols = free],
         sym |-> Symbol(original.Name, FreeScope, Len(free) - 1)]

defineFree(s, original) ==
    LET free == Append(s.FreeSymbols, original)
        symbol == Symbol(original.Name, FreeScope, Len(free) - 1)
    IN  [table |-> [s EXCEPT !.FreeSymbols = free,
                             !.store = StorePut(s.store, original.Name, symbol)],
         sym |-> symbol]

DefineFunctionName(s, name) ==
    LET symbol == Symbol(name, FunctionScope, 0)
    IN  [table |-> [s EXCEPT !.store = StorePut(s.store, name, symbol)], sym |-> symbol]

\* Resolve that looks the name up in the enclosing tables without promoting
\* it in the tables it crosses
RECURSIVE Lookup_NoPromote(_, _, _)
Lookup_NoPromote(tabs, k, name) ==
    IF name \in DOMAIN tabs[k].store THEN [sym |-> tabs[k].store[name], ok |-> TRUE]
    ELSE IF tabs[k].Outer # 0 THEN Lookup_NoPromote(tabs, tabs[k].Outer, name)
    ELSE [sym |-> ZeroSymbol, ok |-> FALSE]

Resolve_SkipIntermediate(tabs, k, name) ==
    IF name \in DOMAIN tabs[k].store
    THEN [tabs |-> tabs, sym |-> tabs[k].store[name], ok |-> TRUE]
    ELSE IF tabs[k].Outer # 0
    THEN LET r == Lookup_NoPromote(tabs, tabs[k].Outer, name)
         IN  IF r.ok /\ r.sym.Scope # GlobalScope /\ r.sym.Scope # BuiltinScope
             THEN LET d == defineFree(tabs[k], r.sym)
                  IN  [tabs |-> [tabs EXCEPT ![k] = d.table], sym |-> d.sym, ok |-> TRUE]
             ELSE [tabs |-> tabs, sym |-> r.sym, ok |-> r.ok]
    ELSE [tabs |-> tabs, sym |-> ZeroSymbol, ok |-> FALSE]

\* Resolve that makes a builtin found in an enclosing table a free symbol
RECURSIVE Resolve_PromoteBuiltin(_, _, _)
Resolve_PromoteBuiltin(tabs, k, name) ==
    IF name \in DOMAIN tabs[k].store
    THEN [tabs |-> tabs, sym |-> tabs[k].store[name], ok |-> TRUE]
    ELSE IF tabs[k].Outer # 0
    THEN LET r == Resolve_PromoteBuiltin(tabs, tabs[k].Outer, name)
         IN  IF r.ok /\ r.sym.Scope # GlobalScope
             THEN LET d == defineFree(r.tabs[k], r.sym)
                  IN  [tabs |-> [r.tabs EXCEPT ![k] = d.table], sym |-> d.sym, ok |-> TRUE]
             ELSE r
    ELSE [tabs |-> tabs, sym |-> ZeroSymbol, ok |-> FALSE]

\* Resolve(name) on table k of the chain: the changed chain (enclosing tables
\* may have gained free symbols), the symbol and the ok flag
RECURSIVE Resolve(_, _, _)
Resolve(tabs, k, name) ==
    IF name \in DOMAIN tabs[k].store
    THEN [tabs |-> tabs, sym |-> tabs[k].store[name], ok |-> TRUE]
    ELSE IF tabs[k].Outer # 0
    THEN LET r == Resolve(tabs, tabs[k].Outer, name)
         IN  IF r.ok /\ r.sym.Scope # GlobalScope /\ r.sym.Scope # BuiltinScope
             THEN LET d == defineFree(r.tabs[k], r.sym)
                  IN  [tabs |-> [r.tabs EXCEPT ![k] = d.table], sym |-> d.sym, ok |-> TRUE]
             ELSE r
    ELSE [tabs |-> tabs, sym |-> ZeroSymbol, ok |-> FALSE]

(***************************************************************************)
(* The symbol table driven as the compiler drives it: calls go to the      *)
(* current table, enterScope encloses it and leaveScope returns to Outer.  *)
(***************************************************************************)
\* names defined and resolved
SymNames == {"a", "b"}
\* the builtin registry seen by the symbol table (name at index)
SymBuiltins == <<"len">>
\* deepest chain of tables
MaxDepth == 4
\* most Define calls on one table
MaxDefs == 2
\* most calls made on the chain in one run
MaxCalls == 8

\* the disassembler is not running
DisIdle == dIns = <<>> /\ dI = 0 /\ dOut = <<>> /\ dPc = "idle"

\* no host run
NoProgram == [type |-> "Program", s |-> "", n |-> 0, kids |-> <<>>, names |-> <<>>]
NoBytecode == [Instructions |-> <<>>, Constants |-> <<>>]
NoVM == [status |-> "idle"]

\* no instruction being encoded
CodecIdle == codec = [pc |-> "idle"]

\* no REPL
ReplIdle == repl = [pc |-> "idle"]

\* no array allocated
ArrIdle == arr = [pc |-> "idle"]

\* no HashKey call
HashIdle == hashed = [pc |-> "idle"]

\* no lexer
LexIdle == lex = [pc |-> "idle"]

HostIdle ==
    /\ prog = NoProgram /\ phase = "idle" /\ cerr = [msg |-> "", arg |-> ""]
    /\ bc = NoBytecode /\ bc2 = NoBytecode /\ vm = NoVM

cur == Len(st)

\* one more call of the run
Called == nCalls < MaxCalls /\ nCalls' = nCalls + 1 /\ UNCHANGED notSym

SymInit ==
    /\ DisIdle
    /\ HostIdle
    /\ CodecIdle
    /\ ReplIdle
    /\ ArrIdle
    /\ HashIdle
    /\ LexIdle
    /\ st = <<NewSymbolTable>>
    /\ ret = [op |-> "New", name |-> "", sym |-> ZeroSymbol, ok |-> TRUE, hit |-> FALSE]
    /\ nCalls = 0

SymDefine(name) ==
    /\ Called
    /\ st[cur].numDefinitions < MaxDefs
    /\ LET d == Define(st[cur], name)
       IN  /\ st' = [st EXCEPT ![cur] = d.table]
           /\ ret' = [op |-> "Define", name |-> name, sym |-> d.sym, ok |-> TRUE, hit |-> FALSE]

SymDefineBuiltin(i) ==
    /\ Called
    /\ cur = 1
    /\ st[cur].numDefinitions = 0
    /\ LET d == DefineBuiltin(st[cur], i - 1, SymBuiltins[i])
       IN  /\ st' = [st EXCEPT ![cur] = d.table]
           /\ ret' = [op |-> "DefineBuiltin", name |-> SymBuiltins[i], sym |-> d.sym, ok |-> TRUE, hit |-> FALSE]

SymDefineFunctionName(name) ==
    /\ Called
    /\ cur > 1
    /\ st[cur] = NewEnclosedSymbolTable(cur - 1)
    /\ LET d == DefineFunctionName(st[cur], name)
       IN  /\ st' = [st EXCEPT ![cur] = d.table]
           /\ ret' = [op |-> "DefineFunctionName", name |-> name, sym |-> d.sym, ok |-> TRUE, hit |-> FALSE]

SymResolve(name) ==
    /\ Called
    /\ LET r == Resolve(st, cur, name)
       IN  /\ st' = r.tabs
           /\ ret' = [op |-> "Resolve", name |-> name, sym |-> r.sym, ok |-> r.ok,
                       hit |-> name \in DOMAIN st[cur].store]

SymEnterScope ==
    /\ Called
    /\ cur < MaxDepth
    /\ st' = Append(st, NewEnclosedSymbolTable(cur))
    /\ ret' = [op |-> "Enter", name |-> "", sym |-> ZeroSymbol, ok |-> TRUE, hit |-> FALSE]

SymLeaveScope ==
    /\ Called
    /\ cur > 1
    /\ st' = SubSeq(st, 1, st[cur].Outer)
    /\ ret' = [op |-> "Leave", name |-> "", sym |-> ZeroSymbol, ok |-> TRUE, hit |-> FALSE]

SymNext ==
    \/ \E name \in SymNames : SymDefine(name)
    \/ \E i \in 1..Len(SymBuiltins) : SymDefineBuiltin(i)
    \/ \E name \in SymNames : SymDefineFunctionName(name)
    \/ \E name \in SymNames \cup {SymBuiltins[i] : i \in 1..Len(SymBuiltins)} : SymResolve(name)
    \/ SymEnterScope
    \/ SymLeaveScope

\* no symbol table is in use
SymIdle == st = <<>> /\ ret = [op |-> "idle", name |-> "", sym |-> ZeroSymbol, ok |-> TRUE, hit |-> FALSE] /\ nCalls = 0

SymSpec == SymInit /\ [][SymNext]_vars

(***************************************************************************)
(* Properties of the symbol table.                                         *)
(***************************************************************************)
\* the step is a Resolve call whose name was not in the current table's store
ResolveMissStep == ret'.op = "Resolve" /\ nCalls' # nCalls /\ ~ret'.hit

\* C6: Resolve of a name missing from the local store: a Global or Builtin
\* symbol of the enclosing chain is returned unchanged and FreeSymbols stays
\* as it was; a Local, Free or FunctionSelf symbol is appended to this
\* table's FreeSymbols, and {name, Free, len(FreeSymbols) - 1} is stored in
\* this table and returned.
C6_ResolvePromotes ==
    [][(ResolveMissStep /\ st[cur].Outer # 0) =>
        LET n == ret'.name
            o == Resolve(st, st[cur].Outer, n)
            me == st[cur]
            me2 == st'[cur]
        IN  /\ (o.ok /\ o.sym.Scope \in {GlobalScope, BuiltinScope}) =>
                  /\ ret'.ok
                  /\ ret'.sym = o.sym
                  /\ me2.FreeSymbols = me.FreeSymbols
            /\ (o.ok /\ o.sym.Scope \in {LocalScope, FreeScope, FunctionScope}) =>
                  /\ me2.FreeSymbols = Append(me.FreeSymbols, o.sym)
                  /\ n \in DOMAIN me2.store
                  /\ me2.store[n] = Symbol(n, FreeScope, Len(me2.FreeSymbols) - 1)
                  /\ ret'.ok
                  /\ ret'.sym = me2.store[n]]_vars

\* a Resolve promoted a symbol that was itself Free or FunctionSelf
C6_Witness ==
    /\ ret.op = "Resolve" /\ ~ret.hit /\ ret.ok
    /\ ret.sym.Scope = FreeScope
    /\ ret.sym.Index = Len(st[cur].FreeSymbols) - 1
    /\ st[cur].FreeSymbols[ret.sym.Index + 1].Scope \in {FreeScope, FunctionScope}

\* the tables that are the same objects before and after a step
Surviving == 1..(IF Len(st) < Len(st') THEN Len(st) ELSE Len(st'))

IsFreeIn(t, n) == n \in DOMAIN t.store /\ t.store[n].Scope = FreeScope

\* C7: resolving a captured name again in the same scope returns the same
\* Free symbol and lengthens no FreeSymbols list; and a name that stays
\* captured in a scope keeps its Free index.
C7_ResolveIdempotent ==
    [][/\ (/\ ret'.op = "Resolve" /\ nCalls' # nCalls
           /\ \/ IsFreeIn(st[cur], ret'.name)
              \/ (ret.op = "Resolve" /\ ret.name = ret'.name /\ ret.sym.Scope = FreeScope))
          => /\ ret'.ok
             /\ ret'.sym = (IF IsFreeIn(st[cur], ret'.name) THEN st[cur].store[ret'.name] ELSE ret.sym)
             /\ st' = st
       /\ \A k \in Surviving : \A n \in DOMAIN st[k].store :
             (IsFreeIn(st[k], n) /\ IsFreeIn(st'[k], n)) => st'[k].store[n] = st[k].store[n]]_vars

\* a captured name was resolved again from the store
C7_Witness ==
    /\ ret.op = "Resolve" /\ ret.hit /\ ret.sym.Scope = FreeScope
    /\ Len(st[cur].FreeSymbols) = 1

\* the nearest table at or around position i that holds name n, 0 if none
RECURSIVE Holder(_, _, _)
Holder(tabs, i, n) ==
    IF i = 0 THEN 0
    ELSE IF n \in DOMAIN tabs[i].store THEN i
    ELSE Holder(tabs, tabs[i].Outer, n)

\* C8: when a name that is a Local of scope S0 is first resolved k scopes
\* below S0, each of the k scopes gains exactly one Free entry for the name,
\* and that entry is the symbol as resolved in the scope enclosing it:
\* the Local in the first scope, that scope's new Free symbol in the next.
C8_TransitiveCapture ==
    [][ResolveMissStep =>
        LET n == ret'.name
            j == Holder(st, cur, n)
        IN  (j # 0 /\ st[j].store[n].Scope = LocalScope) =>
              \A i \in (j + 1)..cur :
                 /\ st'[i].FreeSymbols =
                       Append(st[i].FreeSymbols,
                              IF i = j + 1 THEN st[j].store[n]
                              ELSE Symbol(n, FreeScope, Len(st[i - 1].FreeSymbols)))
                 /\ st'[i].FreeSymbols[Len(st'[i].FreeSymbols)] = st'[i - 1].store[n]
                 /\ Cardinality({x \in 1..Len(st'[i].FreeSymbols) :
                                    st'[i].FreeSymbols[x].Name = n}) = 1]_vars

\* a Local was captured two scopes below the scope that defines it
C8_Witness ==
    /\ ret.op = "Resolve" /\ ~ret.hit /\ ret.sym.Scope = FreeScope
    /\ cur >= 3
    /\ st[cur].FreeSymbols[ret.sym.Index + 1].Scope = FreeScope
    /\ LET up == st[cur].FreeSymbols[ret.sym.Index + 1]
       IN  /\ st[cur - 1].FreeSymbols[up.Index + 1].Scope = LocalScope
           /\ st[cur - 1].FreeSymbols[up.Index + 1].Name = ret.name

\* the names a table binds as Global or Local symbols
Bound(t) == {n \in DOMAIN t.store : t.store[n].Scope \in {GlobalScope, LocalScope}}

BoundIndices(t) == {t.store[n].Index : n \in Bound(t)}

\* C9 as stated: after any sequence of Define calls, also ones that define a
\* name again, the Global (Local) indices held in the store are exactly
\* 0..n-1 for the n names bound.
C9_DenseFromZero ==
    \A k \in 1..Len(st) : BoundIndices(st[k]) = 0..(Cardinality(Bound(st[k])) - 1)

\* C9 amended: the indices held are pairwise distinct and below
\* numDefinitions, every Define returns the count of earlier Define calls,
\* and the indices are exactly 0..n-1 as long as no name was defined twice
\* (numDefinitions = n).
C9_DistinctBelowCount ==
    /\ \A k \in 1..Len(st) :
          /\ Cardinality(BoundIndices(st[k])) = Cardinality(Bound(st[k]))
          /\ BoundIndices(st[k]) \subseteq 0..(st[k].numDefinitions - 1)
          /\ st[k].numDefinitions = Cardinality(Bound(st[k]))
                => BoundIndices(st[k]) = 0..(Cardinality(Bound(st[k])) - 1)
    /\ ret.op = "Define" => ret.sym.Index = st[cur].numDefinitions - 1

\* a name was defined a second time on a table
C9_Witness ==
    /\ ret.op = "Define"
    /\ st[cur].numDefinitions = 2
    /\ Cardinality(Bound(st[cur])) = 1

\* table t2 is table t but for the store entry of name
OnlyStoreEntry(t, t2, name) ==
    /\ t2.Outer = t.Outer
    /\ t2.numDefinitions = t.numDefinitions
    /\ t2.FreeSymbols = t.FreeSymbols
    /\ DOMAIN t2.store = DOMAIN t.store \cup {name}
    /\ \A n \in DOMAIN t.store \ {name} : t2.store[n] = t.store[n]

\* the step is a call of op on the current table
SymStep(op) == ret'.op = op /\ nCalls' # nCalls

\* C30: DefineBuiltin and DefineFunctionName change only the store entry of
\* the name given: numDefinitions and FreeSymbols stay, so that a later
\* Define gets the index it would have got without them (on every table of
\* the chain, whatever it holds); the FunctionScope symbol has Index 0; and
\* Define is the only call that changes numDefinitions of a table, by
\* exactly one, returning a Global symbol when the table has no Outer and a
\* Local one otherwise.
C30_DefineFrame ==
    [][/\ SymStep("DefineBuiltin") =>
            /\ OnlyStoreEntry(st[cur], st'[cur], ret'.name)
            /\ st'[cur].store[ret'.name] = ret'.sym
            /\ ret'.sym.Scope = BuiltinScope
            /\ \A k \in 1..(cur - 1) : st'[k] = st[k]
       /\ SymStep("DefineFunctionName") =>
            /\ OnlyStoreEntry(st[cur], st'[cur], ret'.name)
            /\ st'[cur].store[ret'.name] = ret'.sym
            /\ ret'.sym = Symbol(ret'.name, FunctionScope, 0)
            /\ \A k \in 1..(cur - 1) : st'[k] = st[k]
       /\ SymStep("Define") =>
            /\ st'[cur].numDefinitions = st[cur].numDefinitions + 1
            /\ st'[cur].FreeSymbols = st[cur].FreeSymbols
            /\ ret'.sym = Symbol(ret'.name,
                                 IF st[cur].Outer = 0 THEN GlobalScope ELSE LocalScope,
                                 st[cur].numDefinitions)
            /\ st'[cur].store[ret'.name] = ret'.sym
            /\ \A k \in 1..(cur - 1) : st'[k] = st[k]
       /\ ~SymStep("Define") =>
            \A k \in 1..Len(st) :
               k <= Len(st') => st'[k].numDefinitions = st[k].numDefinitions
       /\ \A k \in 1..Len(st), name \in SymNames, later \in SymNames :
            LET b == DefineBuiltin(st[k], 0, name)
                fs == DefineFunctionName(st[k], name)
            IN  /\ OnlyStoreEntry(st[k], b.table, name)
                /\ OnlyStoreEntry(st[k], fs.table, name)
                /\ fs.sym.Index = 0
                /\ Define(b.table, later).sym = Define(st[k], later).sym
                /\ Define(fs.table, later).sym = Define(st[k], later).sym]_vars

\* a builtin was defined in the global table, which then got its first
\* Global with index 0; and a function name was defined in an enclosed
\* table, which then got its first Local with index 0
C30_Witness ==
    /\ ret.op = "Define" /\ ret.sym.Index = 0 /\ ret.sym.Scope = LocalScope
    /\ cur = 2
    /\ \E n \in DOMAIN st[2].store : st[2].store[n].Scope = FunctionScope
    /\ \E n \in DOMAIN st[1].store : st[1].store[n].Scope = BuiltinScope
    /\ \E n \in DOMAIN st[1].store : st[1].store[n] = Symbol(n, GlobalScope, 0)

(***************************************************************************)
(* Instructions.String(): one action per iteration of its loop.            *)
(***************************************************************************)
\* longest byte sequence handed to the disassembler
MaxInsLen == 3
\* lines of output kept; further lines of a full buffer are dropped
MaxOut == 4
\* bytes the disassembled sequences are made of: defined opcodes with no
\* operand, a 1-byte, a 2-byte and a 2+1-byte operand, and undefined opcodes
DisBytes == {OpConstant, OpPop, OpCall, OpClosure, 30, 255}

RECURSIVE SeqsUpTo(_, _)
SeqsUpTo(S, n) ==
    IF n = 0 THEN {<<>>}
    ELSE LET shorter == SeqsUpTo(S, n - 1)
         IN  shorter \cup {Append(s, x) : s \in {t \in shorter : Len(t) = n - 1}, x \in S}

WriteLine(out, line) == IF Len(out) < MaxOut THEN Append(out, line) ELSE out

\* fmtInstruction(def, operands)
fmtInstruction(def, operands) ==
    IF Len(operands) # Len(def.OperandWidths)
    THEN [kind |-> "ERROR", name |-> def.Name, operands |-> <<>>]
    ELSE [kind |-> "ins", name |-> def.Name, operands |-> operands]

DisInit ==
    /\ SymIdle
    /\ HostIdle
    /\ CodecIdle
    /\ ReplIdle
    /\ ArrIdle
    /\ HashIdle
    /\ LexIdle
    /\ dIns \in SeqsUpTo(DisBytes, MaxInsLen)
    /\ dI = 0
    /\ dOut = <<>>
    /\ dPc = "loop"

\* for i < len(ins): look the opcode up, write a line, advance
StringLoop ==
    /\ dPc = "loop"
    /\ dI < Len(dIns)
    /\ LET l == Lookup(dIns[dI + 1])
           r == ReadOperands(l.def, SliceFrom(dIns, dI + 1))
       IN  IF ~l.ok
           THEN /\ dOut' = WriteLine(dOut, [kind |-> "ERROR", name |-> "undefined",
                                            operands |-> <<dIns[dI + 1]>>])
                /\ UNCHANGED <<dI, dPc>>
           ELSE IF r.panic
           THEN /\ dPc' = "panic"
                /\ UNCHANGED <<dI, dOut>>
           ELSE /\ dOut' = WriteLine(dOut, [pos |-> dI] @@ fmtInstruction(l.def, r.operands))
                /\ dI' = dI + r.read + 1
                /\ UNCHANGED dPc
    /\ UNCHANGED dIns
    /\ UNCHANGED notDis

\* the loop condition fails: return out.String()
StringReturn ==
    /\ dPc = "loop"
    /\ dI >= Len(dIns)
    /\ dPc' = "done"
    /\ UNCHANGED <<dIns, dI, dOut>>
    /\ UNCHANGED notDis

DisNext == StringLoop \/ StringReturn

DisSpec == DisInit /\ [][DisNext]_vars

\* String() runs on one thread with nothing to wait for: its loop keeps going
DisFairSpec == DisSpec /\ WF_vars(StringLoop) /\ WF_vars(StringReturn)

\* C4: Instructions.String() is total: for every byte sequence, also one
\* holding an undefined opcode, the call eventually returns its string
\* (it neither loops forever nor panics).
C4_StringTotal == <>(dPc = "done")

(***************************************************************************)
(* Package ast, as the parser builds it.  A node is a record: its type,    *)
(* a string (operator, name or string value), a number (integer value,     *)
(* or 1/0 for a Boolean), its child nodes and its parameter names.  An     *)
(* IfExpression has two or three children (condition, consequence,         *)
(* alternative); a HashLiteral has key and value alternating in source     *)
(* order.                                                                  *)
(***************************************************************************)
Node(type, str, num, kids, names) ==
    [type |-> type, s |-> str, n |-> num, kids |-> kids, names |-> names]

IntegerLiteral(v) == Node("IntegerLiteral", "", v, <<>>, <<>>)
Boolean(b) == Node("Boolean", "", IF b THEN 1 ELSE 0, <<>>, <<>>)
Identifier(name) == Node("Identifier", name, 0, <<>>, <<>>)
StringLiteral(v) == Node("StringLiteral", v, 0, <<>>, <<>>)
PrefixExpression(op, right) == Node("PrefixExpression", op, 0, <<right>>, <<>>)
InfixExpression(op, left, right) == Node("InfixExpression", op, 0, <<left, right>>, <<>>)
BlockStatement(stmts) == Node("BlockStatement", "", 0, stmts, <<>>)
IfExpression(cond, cons) == Node("IfExpression", "", 0, <<cond, cons>>, <<>>)
IfElseExpression(cond, cons, alt) == Node("IfExpression", "", 0, <<cond, cons, alt>>, <<>>)
FunctionLiteral(params, body) == Node("FunctionLiteral", "", 0, <<body>>, params)
CallExpression(fn, args) == Node("CallExpression", "", 0, <<fn>> \o args, <<>>)
ArrayLiteral(elems) == Node("ArrayLiteral", "", 0, elems, <<>>)
HashLiteral(pairs) == Node("HashLiteral", "", 0, pairs, <<>>)
IndexExpression(left, index) == Node("IndexExpression", "", 0, <<left, index>>, <<>>)
ExpressionStatement(e) == Node("ExpressionStatement", "", 0, <<e>>, <<>>)
ReturnStatement(e) == Node("ReturnStatement", "", 0, <<e>>, <<>>)
Program(stmts) == Node("Program", "", 0, stmts, <<>>)

\* parseLetStatement: a function literal bound by let gets the let's name
LetStatement(name, value) ==
    Node("LetStatement", name, 0,
         <<IF value.type = "FunctionLiteral" THEN [value EXCEPT !.s = name] ELSE value>>,
         <<>>)

(***************************************************************************)
(* Node.String() of the nodes used as hash keys, as a sequence of bytes,   *)
(* and strings.Compare on such sequences.                                  *)
(***************************************************************************)
\* the bytes of the names and string values that occur in the programs
Bytes(str) ==
    CASE str = "a" -> <<97>>
      [] str = "b" -> <<98>>
      [] str = "ab" -> <<97, 98>>
      [] str = "null" -> <<110, 117, 108, 108>>
      [] str = "" -> <<>>
      [] str = "38449a8264b90af6" ->
            <<51, 56, 52, 52, 57, 97, 56, 50, 54, 52, 98, 57, 48, 97, 102, 54>>
      [] str = "3049633cfb3c7f58" ->
            <<51, 48, 52, 57, 54, 51, 51, 99, 102, 98, 51, 99, 55, 102, 53, 56>>
      [] str = "f" -> <<102>>
      [] str = "g" -> <<103>>
      [] str = "x" -> <<120>>
      [] str = "y" -> <<121>>
      [] str = "len" -> <<108, 101, 110>>
      [] str = "1" -> <<49>>
      [] str = "true" -> <<116, 114, 117, 101>>
      [] str = "false" -> <<102, 97, 108, 115, 101>>
      [] str = "!" -> <<33>>
      [] str = "-" -> <<45>>
      [] str = "+" -> <<43>>
      [] str = "<" -> <<60>>
      [] str = ">" -> <<62>>
      [] str = "==" -> <<61, 61>>
      [] OTHER -> <<63>>

\* strconv of a non-negative integer literal
RECURSIVE Digits(_)
Digits(v) == IF v < 10 THEN <<48 + v>> ELSE Digits(v \div 10) \o <<48 + (v % 10)>>

RECURSIVE NodeString(_)
NodeString(node) ==
    CASE node.type = "IntegerLiteral" -> Digits(node.n)
      [] node.type = "Boolean" -> Bytes(IF node.n = 1 THEN "true" ELSE "false")
      [] node.type = "Identifier" -> Bytes(node.s)
      [] node.type = "StringLiteral" -> Bytes(node.s)
      [] node.type = "PrefixExpression" ->
            <<40>> \o Bytes(node.s) \o NodeString(node.kids[1]) \o <<41>>
      [] node.type = "InfixExpression" ->
            <<40>> \o NodeString(node.kids[1]) \o <<32>> \o Bytes(node.s) \o <<32>>
                \o NodeString(node.kids[2]) \o <<41>>
      [] node.type = "IndexExpression" ->
            <<40>> \o NodeString(node.kids[1]) \o <<91>> \o NodeString(node.kids[2]) \o <<93, 41>>
      [] OTHER -> <<63>>

\* strings.Compare(a, b): -1, 0 or 1
RECURSIVE StringsCompareFrom(_, _, _)
StringsCompareFrom(a, b, i) ==
    IF i > Len(a) /\ i > Len(b) THEN 0
    ELSE IF i > Len(a) THEN -1
    ELSE IF i > Len(b) THEN 1
    ELSE IF a[i] < b[i] THEN -1
    ELSE IF a[i] > b[i] THEN 1
    ELSE StringsCompareFrom(a, b, i + 1)

StringsCompare(a, b) == StringsCompareFrom(a, b, 1)

\* slices.SortFunc on a short slice is an insertion sort: an element moves
\* left only past elements that compare greater, so equal keys keep the
\* order they arrived in
RECURSIVE InsertKey(_, _)
InsertKey(sorted, k) ==
    IF sorted = <<>> THEN <<k>>
    ELSE IF StringsCompare(NodeString(k.key), NodeString(sorted[Len(sorted)].key)) < 0
         THEN Append(InsertKey(SubSeq(sorted, 1, Len(sorted) - 1), k), sorted[Len(sorted)])
         ELSE Append(sorted, k)

RECURSIVE SortKeys(_, _)
SortKeys(keys, i) ==
    IF i = 0 THEN <<>> ELSE InsertKey(SortKeys(keys, i - 1), keys[i])

(***************************************************************************)
(* Package object: the constants the compiler produces.                    *)
(***************************************************************************)
Integer(v) == [t |-> "INTEGER", v |-> v]
String(v) == [t |-> "STRING", v |-> v]
CompiledFunction(ins, numLocals, numParameters) ==
    [t |-> "COMPILED_FUNCTION_OBJ", Instructions |-> ins,
     NumLocals |-> numLocals, NumParameters |-> numParameters]

(***************************************************************************)
(* Package compiler: the Compiler.  c.symbolTable is the position of the   *)
(* current table in the chain c.st; c.err is the error Compile returned    *)
(* (NoError for nil).                                                      *)
(***************************************************************************)
EmittedInstruction(op, pos) == [Opcode |-> op, Position |-> pos]

newCompilationScope ==
    [instructions |-> <<>>,
     lastInstruction |-> EmittedInstruction(0, 0),
     previousInstruction |-> EmittedInstruction(0, 0)]

NoError == [msg |-> "", arg |-> ""]

Errorf(msg, arg) == [msg |-> msg, arg |-> arg]

\* the builtin registry, in index order
Builtins == <<"len", "first", "rest", "last", "push", "puts">>

RECURSIVE DefineBuiltins(_, _)
DefineBuiltins(s, i) ==
    IF i = 0 THEN s
    ELSE DefineBuiltin(DefineBuiltins(s, i - 1), i - 1, Builtins[i]).table

\* New(): a global symbol table holding the builtins, no constants, one scope
New ==
    [constants |-> <<>>,
     st |-> <<DefineBuiltins(NewSymbolTable, Len(Builtins))>>,
     symbolTable |-> 1,
     scopes |-> <<newCompilationScope>>,
     scopeIndex |-> 0,
     err |-> NoError]

currentScope(c) == c.scopes[c.scopeIndex + 1]

currentInstructions(c) == currentScope(c).instructions

\* addConstant returns len(c.constants) - 1 after the append
addConstant(c, obj) == [c EXCEPT !.constants = Append(c.constants, obj)]

addInstruction(c, ins) ==
    [c EXCEPT !.scopes[c.scopeIndex + 1].instructions = currentInstructions(c) \o ins]

setLastInstruction(c, op, pos) ==
    [c EXCEPT !.scopes[c.scopeIndex + 1].previousInstruction = currentScope(c).lastInstruction,
              !.scopes[c.scopeIndex + 1].lastInstruction = EmittedInstruction(op, pos)]

\* emit(op, operands...); it returns the position Len(currentInstructions(c))
emit(c, op, operands) ==
    setLastInstruction(addInstruction(c, Make(op, operands)), op, Len(currentInstructions(c)))

lastInstructionIs(c, op) ==
    IF Len(currentInstructions(c)) = 0 THEN FALSE
    ELSE currentScope(c).lastInstruction.Opcode = op

\* removeLastPop that leaves lastInstruction on the removed OpPop
removeLastPop_KeepLast(c) ==
    [c EXCEPT !.scopes[c.scopeIndex + 1].instructions =
                  SubSeq(currentInstructions(c), 1, currentScope(c).lastInstruction.Position)]

removeLastPop(c) ==
    [c EXCEPT !.scopes[c.scopeIndex + 1].instructions =
                  SubSeq(currentInstructions(c), 1, currentScope(c).lastInstruction.Position),
              !.scopes[c.scopeIndex + 1].lastInstruction = currentScope(c).previousInstruction]

replaceInstruction(c, pos, newInstruction) ==
    [c EXCEPT !.scopes[c.scopeIndex + 1].instructions =
        [i \in 1..Len(currentInstructions(c)) |->
            IF i - 1 >= pos /\ i - 1 < pos + Len(newInstruction)
            THEN newInstruction[i - pos]
            ELSE currentInstructions(c)[i]]]

\* changeOperand that leaves the instruction as it was emitted
changeOperand_None(c, opPos, operand) == c

changeOperand(c, opPos, operand) ==
    replaceInstruction(c, opPos, Make(currentInstructions(c)[opPos + 1], <<operand>>))

enterScope(c) ==
    [c EXCEPT !.scopes = Append(c.scopes, newCompilationScope),
              !.scopeIndex = c.scopeIndex + 1,
              !.st = Append(c.st, NewEnclosedSymbolTable(c.symbolTable)),
              !.symbolTable = Len(c.st) + 1]

\* leaveScope returns currentInstructions(c); the table left behind is
\* unreachable from then on
leaveScope(c) ==
    [c EXCEPT !.scopes = SubSeq(c.scopes, 1, Len(c.scopes) - 1),
              !.scopeIndex = c.scopeIndex - 1,
              !.st = SubSeq(c.st, 1, c.st[c.symbolTable].Outer),
              !.symbolTable = c.st[c.symbolTable].Outer]

replaceLastPopWithReturn(c) ==
    LET lastPos == currentScope(c).lastInstruction.Position
        r == replaceInstruction(c, lastPos, Make(OpReturnValue, <<>>))
    IN  [r EXCEPT !.scopes[c.scopeIndex + 1].lastInstruction.Opcode = OpReturnValue]

\* loadSymbol that loads a Free symbol from the frame's slots, not from
\* the closure
loadSymbol_FreeAsLocal(c, sym) ==
    CASE sym.Scope = GlobalScope -> emit(c, OpGetGlobal, <<sym.Index>>)
      [] sym.Scope = LocalScope -> emit(c, OpGetLocal, <<sym.Index>>)
      [] sym.Scope = BuiltinScope -> emit(c, OpGetBuiltin, <<sym.Index>>)
      [] sym.Scope = FreeScope -> emit(c, OpGetLocal, <<sym.Index>>)
      [] sym.Scope = FunctionScope -> emit(c, OpCurrentClosure, <<>>)
      [] OTHER -> c

\* loadSymbol that loads a FunctionScope symbol like a local
loadSymbol_SelfAsLocal(c, sym) ==
    CASE sym.Scope = GlobalScope -> emit(c, OpGetGlobal, <<sym.Index>>)
      [] sym.Scope = LocalScope -> emit(c, OpGetLocal, <<sym.Index>>)
      [] sym.Scope = BuiltinScope -> emit(c, OpGetBuiltin, <<sym.Index>>)
      [] sym.Scope = FreeScope -> emit(c, OpGetFree, <<sym.Index>>)
      [] sym.Scope = FunctionScope -> emit(c, OpGetLocal, <<sym.Index>>)
      [] OTHER -> c

loadSymbol(c, sym) ==
    CASE sym.Scope = GlobalScope -> emit(c, OpGetGlobal, <<sym.Index>>)
      [] sym.Scope = LocalScope -> emit(c, OpGetLocal, <<sym.Index>>)
      [] sym.Scope = BuiltinScope -> emit(c, OpGetBuiltin, <<sym.Index>>)
      [] sym.Scope = FreeScope -> emit(c, OpGetFree, <<sym.Index>>)
      [] sym.Scope = FunctionScope -> emit(c, OpCurrentClosure, <<>>)
      [] OTHER -> c

\* loadSymbols that loads the last symbol first
RECURSIVE loadSymbols_Reversed(_, _, _)
loadSymbols_Reversed(c, syms, i) ==
    IF i > Len(syms) THEN c
    ELSE loadSymbols_Reversed(loadSymbol(c, syms[Len(syms) + 1 - i]), syms, i + 1)

RECURSIVE loadSymbols(_, _, _)
loadSymbols(c, syms, i) ==
    IF i > Len(syms) THEN c ELSE loadSymbols(loadSymbol(c, syms[i]), syms, i + 1)

\* defineParameters that defines the last parameter first
RECURSIVE defineParameters_Reversed(_, _, _)
defineParameters_Reversed(c, params, i) ==
    IF i > Len(params) THEN c
    ELSE defineParameters_Reversed(
            [c EXCEPT !.st[c.symbolTable] =
                Define(c.st[c.symbolTable], params[Len(params) + 1 - i]).table],
            params, i + 1)

\* c.symbolTable.Define(name) for each parameter
RECURSIVE defineParameters(_, _, _)
defineParameters(c, params, i) ==
    IF i > Len(params) THEN c
    ELSE defineParameters(
            [c EXCEPT !.st[c.symbolTable] = Define(c.st[c.symbolTable], params[i]).table],
            params, i + 1)

\* the keys of a hash literal in the order `for k := range node.Pairs` yields
\* them: order is a permutation of the pair numbers
RangePairs(node, order) ==
    [i \in 1..(Len(node.kids) \div 2) |->
        [key |-> node.kids[2 * order[i] - 1], value |-> node.kids[2 * order[i]]]]

\* the elements of the permutation perm that are at most n, in perm's order
RECURSIVE RestrictOrder(_, _, _)
RestrictOrder(perm, n, i) ==
    IF i > Len(perm) THEN <<>>
    ELSE (IF perm[i] <= n THEN <<perm[i]>> ELSE <<>>) \o RestrictOrder(perm, n, i + 1)

InfixOpcode(operator) ==
    CASE operator = "+" -> OpAdd
      [] operator = "-" -> OpSub
      [] operator = "*" -> OpMul
      [] operator = "/" -> OpDiv
      [] operator = ">" -> OpGreaterThan
      [] operator = "==" -> OpEqual
      [] operator = "!=" -> OpNotEqual
      [] OTHER -> -1

\* Compile(node): the compiler after the call, c.err holding the error it
\* returned.  perm fixes the order in which Go ranges over the Pairs map of
\* a hash literal.
RECURSIVE Compile(_, _, _), CompileRange(_, _, _, _, _), CompilePairs(_, _, _, _)
RECURSIVE CompileRange_KeepGoing(_, _, _, _, _)

\* the loop below without its "if err != nil { return err }"
CompileRange_KeepGoing(c, nodes, lo, hi, perm) ==
    IF lo > hi THEN c
    ELSE IF lo = hi THEN Compile(c, nodes[lo], perm)
    ELSE LET mid == (lo + hi) \div 2
             c1 == CompileRange_KeepGoing(c, nodes, lo, mid, perm)
         IN  CompileRange_KeepGoing(c1, nodes, mid + 1, hi, perm)

\* the turns lo..hi of the loop below, in order, stopping at the first
\* error; the range is halved so that a long list nests only a few levels
CompileRange(c, nodes, lo, hi, perm) ==
    IF lo > hi THEN c
    ELSE IF lo = hi THEN Compile(c, nodes[lo], perm)
    ELSE LET mid == (lo + hi) \div 2
             c1 == CompileRange(c, nodes, lo, mid, perm)
         IN  IF c1.err # NoError THEN c1 ELSE CompileRange(c1, nodes, mid + 1, hi, perm)

\* for _, s := range nodes { err := c.Compile(s); if err != nil { return err } }
CompileEach(c, nodes, i, perm) == CompileRange(c, nodes, i, Len(nodes), perm)

CompilePairs(c, keys, i, perm) ==
    IF i > Len(keys) THEN c
    ELSE LET c1 == Compile(c, keys[i].key, perm)
             c2 == Compile(c1, keys[i].value, perm)
         IN  IF c1.err # NoError THEN c1
             ELSE IF c2.err # NoError THEN c2
             ELSE CompilePairs(c2, keys, i + 1, perm)

CompileIf(c, node, perm) ==
    LET c1 == Compile(c, node.kids[1], perm)
        jumpNotTruthyPos == Len(currentInstructions(c1))
        c2 == emit(c1, OpJumpNotTruthy, <<9999>>)
        c3 == Compile(c2, node.kids[2], perm)
        c4 == IF lastInstructionIs(c3, OpPop) THEN removeLastPop(c3) ELSE c3
        jumpPos == Len(currentInstructions(c4))
        c5 == emit(c4, OpJump, <<9999>>)
        afterConsequencePos == Len(currentInstructions(c5))
        c6 == changeOperand(c5, jumpNotTruthyPos, afterConsequencePos)
        alt == Compile(c6, node.kids[3], perm)
        c7 == IF Len(node.kids) < 3 THEN emit(c6, OpNull, <<>>)
              ELSE IF lastInstructionIs(alt, OpPop) THEN removeLastPop(alt) ELSE alt
        afterAlternativePos == Len(currentInstructions(c7))
    IN  IF c1.err # NoError THEN c1
        ELSE IF c3.err # NoError THEN c3
        ELSE IF Len(node.kids) = 3 /\ alt.err # NoError THEN alt
        ELSE changeOperand(c7, jumpPos, afterAlternativePos)

\* CompileFunctionLiteral that emits no OpReturn after the body
CompileFunctionLiteral_NoReturn(c, node, perm) ==
    LET c1 == enterScope(c)
        c2 == IF node.s # ""
              THEN [c1 EXCEPT !.st[c1.symbolTable] =
                        DefineFunctionName(c1.st[c1.symbolTable], node.s).table]
              ELSE c1
        c3 == defineParameters(c2, node.names, 1)
        c4 == Compile(c3, node.kids[1], perm)
        c6 == IF lastInstructionIs(c4, OpPop) THEN replaceLastPopWithReturn(c4) ELSE c4
        freeSymbols == c6.st[c6.symbolTable].FreeSymbols
        numLocals == c6.st[c6.symbolTable].numDefinitions
        instructions == currentInstructions(c6)
        c7 == leaveScope(c6)
        c8 == loadSymbols(c7, freeSymbols, 1)
        compiledFn == CompiledFunction(instructions, numLocals, Len(node.names))
        fnIndex == Len(c8.constants)
    IN  IF c4.err # NoError THEN c4
        ELSE emit(addConstant(c8, compiledFn), OpClosure, <<fnIndex, Len(freeSymbols)>>)

CompileFunctionLiteral(c, node, perm) ==
    LET c1 == enterScope(c)
        c2 == IF node.s # ""
              THEN [c1 EXCEPT !.st[c1.symbolTable] =
                        DefineFunctionName(c1.st[c1.symbolTable], node.s).table]
              ELSE c1
        c3 == defineParameters(c2, node.names, 1)
        c4 == Compile(c3, node.kids[1], perm)
        c5 == IF lastInstructionIs(c4, OpPop) THEN replaceLastPopWithReturn(c4) ELSE c4
        c6 == IF ~lastInstructionIs(c5, OpReturnValue) THEN emit(c5, OpReturn, <<>>) ELSE c5
        freeSymbols == c6.st[c6.symbolTable].FreeSymbols
        numLocals == c6.st[c6.symbolTable].numDefinitions
        instructions == currentInstructions(c6)
        c7 == leaveScope(c6)
        c8 == loadSymbols(c7, freeSymbols, 1)
        compiledFn == CompiledFunction(instructions, numLocals, Len(node.names))
        fnIndex == Len(c8.constants)
    IN  IF c4.err # NoError THEN c4
        ELSE emit(addConstant(c8, compiledFn), OpClosure, <<fnIndex, Len(freeSymbols)>>)

Compile(c, node, perm) ==
    CASE node.type = "Program" -> CompileEach(c, node.kids, 1, perm)
      [] node.type = "BlockStatement" -> CompileEach(c, node.kids, 1, perm)
      [] node.type = "ExpressionStatement" ->
            LET c1 == Compile(c, node.kids[1], perm)
            IN  IF c1.err # NoError THEN c1 ELSE emit(c1, OpPop, <<>>)
      [] node.type = "InfixExpression" ->
            IF node.s = "<"
            THEN LET c1 == Compile(c, node.kids[2], perm)
                     c2 == Compile(c1, node.kids[1], perm)
                 IN  IF c1.err # NoError THEN c1
                     ELSE IF c2.err # NoError THEN c2
                     ELSE emit(c2, OpGreaterThan, <<>>)
            ELSE LET c1 == Compile(c, node.kids[1], perm)
                     c2 == Compile(c1, node.kids[2], perm)
                 IN  IF c1.err # NoError THEN c1
                     ELSE IF c2.err # NoError THEN c2
                     ELSE IF InfixOpcode(node.s) = -1
                     THEN [c2 EXCEPT !.err = Errorf("unknown operator", node.s)]
                     ELSE emit(c2, InfixOpcode(node.s), <<>>)
      [] node.type = "IntegerLiteral" ->
            emit(addConstant(c, Integer(node.n)), OpConstant, <<Len(c.constants)>>)
      [] node.type = "Boolean" ->
            IF node.n = 1 THEN emit(c, OpTrue, <<>>) ELSE emit(c, OpFalse, <<>>)
      [] node.type = "PrefixExpression" ->
            LET c1 == Compile(c, node.kids[1], perm)
            IN  IF c1.err # NoError THEN c1
                ELSE IF node.s = "!" THEN emit(c1, OpBang, <<>>)
                ELSE IF node.s = "-" THEN emit(c1, OpMinus, <<>>)
                ELSE [c1 EXCEPT !.err = Errorf("unknown operator", node.s)]
      [] node.type = "IfExpression" -> CompileIf(c, node, perm)
      [] node.type = "LetStatement" ->
            LET d == Define(c.st[c.symbolTable], node.s)
                c1 == Compile([c EXCEPT !.st[c.symbolTable] = d.table], node.kids[1], perm)
            IN  IF c1.err # NoError THEN c1
                ELSE IF d.sym.Scope = GlobalScope THEN emit(c1, OpSetGlobal, <<d.sym.Index>>)
                ELSE emit(c1, OpSetLocal, <<d.sym.Index>>)
      [] node.type = "Identifier" ->
            LET r == Resolve(c.st, c.symbolTable, node.s)
            IN  IF ~r.ok THEN [c EXCEPT !.err = Errorf("undefined variable", node.s)]
                ELSE loadSymbol([c EXCEPT !.st = r.tabs], r.sym)
      [] node.type = "StringLiteral" ->
            emit(addConstant(c, String(node.s)), OpConstant, <<Len(c.constants)>>)
      [] node.type = "ArrayLiteral" ->
            LET c1 == CompileEach(c, node.kids, 1, perm)
            IN  IF c1.err # NoError THEN c1 ELSE emit(c1, OpArray, <<Len(node.kids)>>)
      [] node.type = "HashLiteral" ->
            LET n == Len(node.kids) \div 2
                keys == RangePairs(node, RestrictOrder(perm, n, 1))
                c1 == CompilePairs(c, SortKeys(keys, n), 1, perm)
            IN  IF c1.err # NoError THEN c1 ELSE emit(c1, OpHash, <<n * 2>>)
      [] node.type = "IndexExpression" ->
            LET c1 == Compile(c, node.kids[1], perm)
                c2 == Compile(c1, node.kids[2], perm)
            IN  IF c1.err # NoError THEN c1
                ELSE IF c2.err # NoError THEN c2
                ELSE emit(c2, OpIndex, <<>>)
      [] node.type = "FunctionLiteral" -> CompileFunctionLiteral(c, node, perm)
      [] node.type = "ReturnStatement" ->
            LET c1 == Compile(c, node.kids[1], perm)
            IN  IF c1.err # NoError THEN c1 ELSE emit(c1, OpReturnValue, <<>>)
      [] node.type = "CallExpression" ->
            LET c1 == Compile(c, node.kids[1], perm)
                c2 == CompileEach(c1, SubSeq(node.kids, 2, Len(node.kids)), 1, perm)
            IN  IF c1.err # NoError THEN c1
                ELSE IF c2.err # NoError THEN c2
                ELSE emit(c2, OpCall, <<Len(node.kids) - 1>>)
      [] OTHER -> c

\* Bytecode(): the current scope's instructions and the constants
Bytecode(c) == [Instructions |-> currentInstructions(c), Constants |-> c.constants]

(***************************************************************************)
(* Package object: runtime values.  Nil is Go's nil Object, the content of *)
(* a stack or globals slot that was never written.                         *)
(***************************************************************************)
Nil == [t |-> "nil"]
Null == [t |-> "NULL"]
BooleanObject(b) == [t |-> "BOOLEAN", v |-> b]
Array(elements) == [t |-> "ARRAY", Elements |-> elements]
Hash(pairs) == [t |-> "HASH", Pairs |-> pairs]
Closure(fn, free) == [t |-> "CLOSURE", Fn |-> fn, Free |-> free]
Builtin(index) == [t |-> "BUILTIN", v |-> index]
Error(message) == [t |-> "ERROR", Message |-> message]

Hashable(o) == o.t \in {"INTEGER", "BOOLEAN", "STRING"}

(***************************************************************************)
(* HashKey.  A uint64 is written as its four 16-bit limbs, lowest first.  *)
(***************************************************************************)
\* uint64(v) of an int64 v (two's complement for a negative v)
Uint64(v) ==
    IF v >= 0 THEN <<v % 65536, (v \div 65536) % 65536, 0, 0>>
    ELSE LET w == (-v) - 1
         IN  <<65535 - (w % 65536), 65535 - ((w \div 65536) % 65536), 65535, 65535>>

\* a ^ b on n bits
RECURSIVE XorBits(_, _, _)
XorBits(a, b, n) ==
    IF n = 0 THEN 0
    ELSE (IF (a % 2) # (b % 2) THEN 1 ELSE 0) + 2 * XorBits(a \div 2, b \div 2, n - 1)

\* hash/fnv: offset64 = 14695981039346656037 = 0xcbf29ce484222325
offset64 == <<8997, 33826, 40164, 52210>>

\* hash/fnv: hash *= prime64, prime64 = 1099511628211 = 2^40 + 435, modulo
\* 2^64: the columns of h * 435 + h * 2^40 and their carries
MulPrime64(h) ==
    LET r1 == h[1] * 435
        r2 == h[2] * 435 + (r1 \div 65536)
        r3 == h[3] * 435 + h[1] * 256 + (r2 \div 65536)
        r4 == h[4] * 435 + h[2] * 256 + (r3 \div 65536)
    IN  <<r1 % 65536, r2 % 65536, r3 % 65536, r4 % 65536>>

\* hash/fnv (*sum64a).Write: for each byte c, hash ^= c; hash *= prime64
\* (the hash after a byte is bound as a value before the next byte)
RECURSIVE Write(_, _, _)
Write(h, data, i) ==
    IF i > Len(data) THEN h
    ELSE LET hash == MulPrime64(<<XorBits(h[1], data[i], 16), h[2], h[3], h[4]>>)
         IN  CHOOSE r \in {Write(v, data, i + 1) : v \in {hash}} : TRUE

\* h := fnv.New64a(); h.Write(data); h.Sum64()
Sum64(data) == Write(offset64, data, 1)

\* (*String).HashKey on a String with its cache field hashKey (Nil, or a
\* pointer to a HashKey): the key returned and the String afterwards
StringHashKey(s) ==
    LET hashKey == [Type |-> "STRING", Value |-> Sum64(Bytes(s.v))]
    IN  IF s.hashKey.t # "nil"
        THEN [key |-> [Type |-> s.hashKey.Type, Value |-> s.hashKey.Value], s |-> s]
        ELSE [key |-> hashKey,
              s |-> [s EXCEPT !.hashKey = [t |-> "ptr", Type |-> hashKey.Type, Value |-> hashKey.Value]]]

\* HashKey() of a Boolean, an Integer, and a String whose cache is not set
HashKey(o) ==
    CASE o.t = "BOOLEAN" -> [Type |-> o.t, Value |-> Uint64(IF o.v THEN 1 ELSE 0)]
      [] o.t = "INTEGER" -> [Type |-> o.t, Value |-> Uint64(o.v)]
      [] OTHER -> [Type |-> o.t, Value |-> Sum64(Bytes(o.v))]

\* what a builtin returns: a value, Nil when it returns nothing, NilPanic
\* when it calls Type() or Inspect() on a nil argument
NilPanic == [t |-> "panic"]

builtinFn(name, args) ==
    LET a == args[1]
        unsupported(msg) == IF a.t = "nil" THEN NilPanic ELSE Error(msg)
    IN  CASE name = "len" ->
               IF Len(args) # 1 THEN Error("wrong number of arguments")
               ELSE IF a.t = "STRING" THEN Integer(Len(Bytes(a.v)))
               ELSE IF a.t = "ARRAY" THEN Integer(Len(a.Elements))
               ELSE unsupported("argument to len not supported")
          [] name = "first" ->
               IF Len(args) # 1 THEN Error("wrong number of arguments")
               ELSE IF a.t = "ARRAY"
                    THEN (IF Len(a.Elements) > 0 THEN a.Elements[1] ELSE Nil)
               ELSE unsupported("argument to first not supported")
          [] name = "rest" ->
               IF Len(args) # 1 THEN Error("wrong number of arguments")
               ELSE IF a.t = "ARRAY"
                    THEN (IF Len(a.Elements) > 0 THEN Array(Tail(a.Elements)) ELSE Nil)
               ELSE unsupported("argument to rest not supported")
          [] name = "last" ->
               IF Len(args) # 1 THEN Error("wrong number of arguments")
               ELSE IF a.t = "ARRAY"
                    THEN (IF Len(a.Elements) > 0 THEN a.Elements[Len(a.Elements)] ELSE Nil)
               ELSE unsupported("argument to last not supported")
          [] name = "push" ->
               IF Len(args) # 2 THEN Error("wrong number of arguments")
               ELSE IF a.t = "ARRAY" THEN Array(Append(a.Elements, args[2]))
               ELSE unsupported("argument to push not supported")
          [] OTHER ->
               IF \E i \in 1..Len(args) : args[i].t = "nil" THEN NilPanic ELSE Nil

\* Inspect() of the values that the programs print
Inspect(o) ==
    CASE o.t = "INTEGER" -> IF o.v < 0 THEN <<45>> \o Digits(0 - o.v) ELSE Digits(o.v)
      [] o.t = "BOOLEAN" -> IF o.v THEN Bytes("true") ELSE Bytes("false")
      [] o.t = "STRING" -> Bytes(o.v)
      [] o.t = "NULL" -> Bytes("null")
      [] OTHER -> <<63>>

\* the lines that a call of the builtin writes to the standard output
builtinOutput(name, args) ==
    IF name = "puts" THEN [i \in 1..Len(args) |-> Inspect(args[i])] ELSE <<>>

\* the builtins with first returning an error for an empty array
CallBuiltin_FirstOfEmpty(index, args) ==
    LET r == builtinFn(Builtins[index + 1], args)
    IN  IF Builtins[index + 1] = "first" /\ r.t = "nil"
        THEN Error("argument to first not supported") ELSE r

CallBuiltin(index, args) == builtinFn(Builtins[index + 1], args)

(***************************************************************************)
(* Package vm.  Frame is the repository's; the machine itself follows the  *)
(* VM section of the design document.  A machine is a record: constants,   *)
(* stack (slots 0..StackSize-1), sp, globals (the slots written so far),   *)
(* frames (the live frames, the current one last), status and err.         *)
(* status is "running", "done" (Run returned nil), "error" (Run returned   *)
(* err) or "panic" (a slot outside the stack was accessed, or nil was      *)
(* used as a value).                                                       *)
(***************************************************************************)
\* slots of the value stack
StackSize == 8
\* most frames alive at once
MaxFrames == 4

\* NewFrame that starts at the first instruction instead of before it
NewFrame_IpZero(cl, basePointer) == [cl |-> cl, ip |-> 0, basePointer |-> basePointer]

NewFrame(cl, basePointer) == [cl |-> cl, ip |-> -1, basePointer |-> basePointer]

FrameInstructions(f) == f.cl.Fn.Instructions

NewVM(bytecode) ==
    [constants |-> bytecode.Constants,
     stack |-> [i \in 0..(StackSize - 1) |-> Nil],
     sp |-> 0,
     globals |-> [i \in {} |-> Nil],
     frames |-> <<NewFrame(Closure(CompiledFunction(bytecode.Instructions, 0, 0), <<>>), 0)>>,
     status |-> "running",
     err |-> "",
     errArgs |-> <<>>,
     out |-> <<>>,
     \* history: the value removed by the most recent pop
     lastPop |-> Nil,
     \* history: for each frame, the indices of the OpSetLocal it has run
     written |-> <<{}>>]

currentFrame(m) == m.frames[Len(m.frames)]

Fail(m, msg) == [m EXCEPT !.status = "error", !.err = msg]

\* an error whose message is formatted with arguments
Failf(m, msg, args) == [m EXCEPT !.status = "error", !.err = msg, !.errArgs = args]

\* a crash of Run: status "panic", err the reason
Panic(m, reason) == [m EXCEPT !.status = "panic", !.err = reason]

\* push that does not look at the size of the stack
push_NoLimit(m, o) ==
    IF m.status # "running" THEN m
    ELSE IF m.sp < 0 THEN Panic(m, "stack underflow")
    ELSE [m EXCEPT !.stack = [i \in DOMAIN m.stack \cup {m.sp} |-> IF i = m.sp THEN o ELSE m.stack[i]],
                   !.sp = m.sp + 1]

push(m, o) ==
    IF m.status # "running" THEN m
    ELSE IF m.sp < 0 THEN Panic(m, "stack underflow")
    ELSE IF m.sp >= StackSize THEN Fail(m, "stack overflow")
    ELSE [m EXCEPT !.stack[m.sp] = o, !.sp = m.sp + 1]

\* the n values below sp, lowest first
TopValues(m, n) == [i \in 1..n |-> m.stack[m.sp - n + i - 1]]

isTruthy(o) ==
    CASE o.t = "BOOLEAN" -> o.v
      [] o.t = "NULL" -> FALSE
      [] OTHER -> TRUE

\* the value named by an OpEqual comparison of two values of one type
SameValue(left, right) ==
    CASE left.t \in {"INTEGER", "BOOLEAN", "STRING"} -> left.v = right.v
      [] left.t = "NULL" -> TRUE
      [] OTHER -> FALSE

executeBinaryOperation(m, op) ==
    LET right == m.stack[m.sp - 1]
        left == m.stack[m.sp - 2]
        m2 == [m EXCEPT !.sp = m.sp - 2]
    IN  IF m.sp < 2 THEN Panic(m, "stack underflow")
        ELSE IF left.t = "nil" \/ right.t = "nil" THEN Panic(m, "nil value")
        ELSE IF left.t = "INTEGER" /\ right.t = "INTEGER"
        THEN CASE op = OpAdd -> push(m2, Integer(left.v + right.v))
               [] op = OpSub -> push(m2, Integer(left.v - right.v))
               [] op = OpMul -> push(m2, Integer(left.v * right.v))
               [] OTHER -> IF right.v = 0 THEN Panic(m2, "integer divide by zero")
                           ELSE push(m2, Integer(left.v \div right.v))
        ELSE IF left.t = "STRING" /\ right.t = "STRING" /\ op = OpAdd
        THEN push(m2, String(left.v \o right.v))
        ELSE Fail(m2, "unsupported types for binary operation")

executeComparison(m, op) ==
    LET right == m.stack[m.sp - 1]
        left == m.stack[m.sp - 2]
        m2 == [m EXCEPT !.sp = m.sp - 2]
    IN  IF m.sp < 2 THEN Panic(m, "stack underflow")
        ELSE IF left.t = "nil" \/ right.t = "nil" THEN Panic(m, "nil value")
        ELSE IF op = OpGreaterThan
        THEN (IF left.t = "INTEGER" /\ right.t = "INTEGER"
              THEN push(m2, BooleanObject(left.v > right.v))
              ELSE Fail(m2, "unknown operator"))
        ELSE LET eq == left.t = right.t /\ SameValue(left, right)
             IN  push(m2, BooleanObject(IF op = OpEqual THEN eq ELSE ~eq))

\* the pairs of the 2K values below sp, a later pair replacing an earlier
\* one with the same hash key
RECURSIVE buildHash(_, _)
buildHash(values, i) ==
    IF i = 0 THEN [k \in {} |-> Nil]
    ELSE LET before == buildHash(values, i - 1)
             hk == HashKey(values[2 * i - 1])
             pair == [Key |-> values[2 * i - 1], Value |-> values[2 * i]]
         IN  [k \in DOMAIN before \cup {hk} |-> IF k = hk THEN pair ELSE before[k]]

executeIndexExpression(m) ==
    LET index == m.stack[m.sp - 1]
        left == m.stack[m.sp - 2]
        m2 == [m EXCEPT !.sp = m.sp - 2]
    IN  IF m.sp < 2 THEN Panic(m, "stack underflow")
        ELSE IF left.t = "nil" \/ index.t = "nil" THEN Panic(m, "nil value")
        ELSE IF left.t = "ARRAY" /\ index.t = "INTEGER"
        THEN (IF index.v < 0 \/ index.v > Len(left.Elements) - 1 THEN push(m2, Null)
              ELSE push(m2, left.Elements[index.v + 1]))
        ELSE IF left.t = "HASH"
        THEN (IF ~Hashable(index) THEN Fail(m2, "unusable as hash key")
              ELSE IF HashKey(index) \in DOMAIN left.Pairs
              THEN push(m2, left.Pairs[HashKey(index)].Value)
              ELSE push(m2, Null))
        ELSE Fail(m2, "index operator not supported")

\* OpCall n
\* executeCall that calls a closure whatever the number of arguments
executeCall_NoArityCheck(m, numArgs) ==
    LET callee == m.stack[m.sp - 1 - numArgs]
    IN  IF m.sp - 1 - numArgs < 0 THEN Panic(m, "stack underflow")
        ELSE IF callee.t = "CLOSURE"
        THEN (IF Len(m.frames) >= MaxFrames THEN Fail(m, "frame overflow")
              ELSE IF m.sp - numArgs + callee.Fn.NumLocals > StackSize
              THEN Fail(m, "stack overflow")
              ELSE [m EXCEPT !.frames = Append(m.frames, NewFrame(callee, m.sp - numArgs)),
                             !.sp = m.sp - numArgs + callee.Fn.NumLocals])
        ELSE IF callee.t = "BUILTIN"
        THEN LET result == CallBuiltin(callee.v, TopValues(m, numArgs))
                 written == builtinOutput(Builtins[callee.v + 1], TopValues(m, numArgs))
             IN  IF result.t = "panic" THEN Panic(m, "nil value")
                 ELSE push([m EXCEPT !.sp = m.sp - numArgs - 1, !.out = m.out \o written],
                           IF result.t = "nil" THEN Null ELSE result)
        ELSE Fail(m, "calling non-function")

executeCall(m, numArgs) ==
    LET callee == m.stack[m.sp - 1 - numArgs]
    IN  IF m.sp - 1 - numArgs < 0 THEN Panic(m, "stack underflow")
        ELSE IF callee.t = "CLOSURE"
        THEN (IF numArgs # callee.Fn.NumParameters
              THEN Failf(m, "wrong number of arguments: want=%d, got=%d",
                         <<callee.Fn.NumParameters, numArgs>>)
              ELSE IF Len(m.frames) >= MaxFrames THEN Fail(m, "frame overflow")
              ELSE IF m.sp - numArgs + callee.Fn.NumLocals > StackSize
              THEN Fail(m, "stack overflow")
              ELSE [m EXCEPT !.frames = Append(m.frames, NewFrame(callee, m.sp - numArgs)),
                             !.sp = m.sp - numArgs + callee.Fn.NumLocals])
        ELSE IF callee.t = "BUILTIN"
        THEN LET result == CallBuiltin(callee.v, TopValues(m, numArgs))
                 written == builtinOutput(Builtins[callee.v + 1], TopValues(m, numArgs))
             IN  IF result.t = "panic" THEN Panic(m, "nil value")
                 ELSE push([m EXCEPT !.sp = m.sp - numArgs - 1, !.out = m.out \o written],
                           IF result.t = "nil" THEN Null ELSE result)
        ELSE Fail(m, "calling non-function")

\* OpReturnValue and OpReturn: leave the frame and push value
returnFromFrame(m, value) ==
    LET frame == currentFrame(m)
    IN  IF Len(m.frames) = 1 THEN Panic(m, "stack underflow")
        ELSE push([m EXCEPT !.frames = SubSeq(m.frames, 1, Len(m.frames) - 1),
                            !.sp = frame.basePointer - 1],
                  value)

\* OpClosure constIndex numFree
pushClosure(m, constIndex, numFree) ==
    LET function == m.constants[constIndex + 1]
    IN  IF constIndex >= Len(m.constants) THEN Panic(m, "index out of range")
        ELSE IF function.t # "COMPILED_FUNCTION_OBJ" THEN Fail(m, "not a function")
        ELSE IF m.sp - numFree < 0 THEN Panic(m, "stack underflow")
        ELSE push([m EXCEPT !.sp = m.sp - numFree],
                  Closure(function, TopValues(m, numFree)))

\* one turn of the main loop of Run
RunStep(m) ==
    LET frame == currentFrame(m)
        ins == FrameInstructions(frame)
        ip == frame.ip + 1
        op == ins[ip + 1]
        r == ReadOperands(Lookup(op).def, SliceFrom(ins, ip + 1))
        a == r.operands
        \* the frame's ip now stands on the last byte of the instruction
        m1 == [m EXCEPT !.frames[Len(m.frames)].ip = ip + r.read]
        top == m.stack[m.sp - 1]
        popped == [m1 EXCEPT !.sp = m.sp - 1]
        bp == frame.basePointer
    IN  IF ip >= Len(ins)
        THEN (IF Len(m.frames) = 1 THEN [m EXCEPT !.status = "done"]
              ELSE returnFromFrame(m, Null))
        ELSE IF ~Lookup(op).ok THEN Fail(m, "opcode undefined")
        ELSE IF r.panic THEN Panic(m, "index out of range")
        ELSE CASE op = OpConstant ->
                    IF a[1] >= Len(m.constants) THEN Panic(m1, "index out of range")
                    ELSE push(m1, m.constants[a[1] + 1])
               [] op \in {OpAdd, OpSub, OpMul, OpDiv} -> executeBinaryOperation(m1, op)
               [] op = OpPop -> IF m.sp < 1 THEN Panic(m1, "stack underflow") ELSE popped
               [] op = OpTrue -> push(m1, BooleanObject(TRUE))
               [] op = OpFalse -> push(m1, BooleanObject(FALSE))
               [] op = OpNull -> push(m1, Null)
               [] op \in {OpEqual, OpNotEqual, OpGreaterThan} -> executeComparison(m1, op)
               [] op = OpMinus ->
                    IF m.sp < 1 THEN Panic(m1, "stack underflow")
                    ELSE IF top.t = "nil" THEN Panic(m1, "nil value")
                    ELSE IF top.t # "INTEGER" THEN Fail(popped, "unsupported type for negation")
                    ELSE push(popped, Integer(0 - top.v))
               [] op = OpBang ->
                    IF m.sp < 1 THEN Panic(m1, "stack underflow")
                    ELSE push(popped, BooleanObject(~isTruthy(top)))
               [] op = OpJumpNotTruthy ->
                    IF m.sp < 1 THEN Panic(m1, "stack underflow")
                    ELSE IF ~isTruthy(top)
                    THEN [popped EXCEPT !.frames[Len(m.frames)].ip = a[1] - 1]
                    ELSE popped
               [] op = OpJump -> [m1 EXCEPT !.frames[Len(m.frames)].ip = a[1] - 1]
               [] op = OpSetGlobal ->
                    IF m.sp < 1 THEN Panic(m1, "stack underflow")
                    ELSE [popped EXCEPT !.globals =
                             [i \in DOMAIN m.globals \cup {a[1]} |->
                                 IF i = a[1] THEN top ELSE m.globals[i]]]
               [] op = OpGetGlobal ->
                    push(m1, IF a[1] \in DOMAIN m.globals THEN m.globals[a[1]] ELSE Nil)
               [] op = OpSetLocal ->
                    IF m.sp < 1 THEN Panic(m1, "stack underflow")
                    ELSE IF bp + a[1] >= StackSize THEN Panic(m1, "index out of range")
                    ELSE [popped EXCEPT !.stack[bp + a[1]] = top]
               [] op = OpGetLocal ->
                    IF bp + a[1] >= StackSize THEN Panic(m1, "index out of range")
                    ELSE push(m1, m.stack[bp + a[1]])
               [] op = OpGetBuiltin ->
                    IF a[1] >= Len(Builtins) THEN Panic(m1, "index out of range") ELSE push(m1, Builtin(a[1]))
               [] op = OpArray ->
                    IF m.sp - a[1] < 0 THEN Panic(m1, "stack underflow")
                    ELSE push([m1 EXCEPT !.sp = m.sp - a[1]], Array(TopValues(m, a[1])))
               [] op = OpHash ->
                    IF m.sp - a[1] < 0 THEN Panic(m1, "stack underflow")
                    ELSE IF \E i \in 1..(a[1] \div 2) : ~Hashable(TopValues(m, a[1])[2 * i - 1])
                    THEN Fail(m1, "unusable as hash key")
                    ELSE push([m1 EXCEPT !.sp = m.sp - a[1]],
                              Hash(buildHash(TopValues(m, a[1]), a[1] \div 2)))
               [] op = OpIndex -> executeIndexExpression(m1)
               [] op = OpCall -> executeCall(m1, a[1])
               [] op = OpReturnValue ->
                    IF m.sp < 1 THEN Panic(m1, "stack underflow") ELSE returnFromFrame(m1, top)
               [] op = OpReturn -> returnFromFrame(m1, Null)
               [] op = OpClosure -> pushClosure(m1, a[1], a[2])
               [] op = OpGetFree ->
                    IF a[1] >= Len(frame.cl.Free) THEN Panic(m1, "index out of range")
                    ELSE push(m1, frame.cl.Free[a[1] + 1])
               [] OTHER -> push(m1, frame.cl)

\* LastPoppedStackItem(): the slot just above the top of the stack
\* LastPoppedStackItem that reads the slot above the one just freed
LastPoppedStackItem_Above(m) == m.stack[m.sp + 1]

LastPoppedStackItem(m) == m.stack[m.sp]

(***************************************************************************)
(* A host run (main.go, executeFile): compile the parsed program with a    *)
(* fresh compiler, make a machine for the bytecode, Run it.  Compiling     *)
(* the program a second time with another fresh compiler is part of the    *)
(* run, so that the two bytecodes can be compared.                         *)
(***************************************************************************)
\* most statements in a program
MaxStmts == 2
\* most pairs in a hash literal
MaxPairs == 2

int(v) == IntegerLiteral(v)
id(name) == Identifier(name)
expr(e) == ExpressionStatement(e)
block(stmts) == BlockStatement(stmts)
fn(params, stmts) == FunctionLiteral(params, BlockStatement(stmts))
call(e, args) == CallExpression(e, args)

\* the blocks used as arms of an if: {}, { 1 }, { let x = 1; }
Arms == {block(<<>>), block(<<expr(int(1))>>), block(<<LetStatement("x", int(1))>>)}

\* if (true|false) arm, and if (true|false) arm else arm with a value in
\* one of the arms
IfExpressions ==
    {IfExpression(Boolean(b), a) : b \in BOOLEAN, a \in Arms}
    \cup {IfElseExpression(Boolean(b), a1, a2) : b \in BOOLEAN,
             a1 \in Arms, a2 \in {block(<<expr(int(1))>>)}}
    \cup {IfElseExpression(Boolean(b), block(<<expr(int(1))>>), block(<<>>)) : b \in BOOLEAN}

\* hash literals of up to MaxPairs pairs with keys 1 and 2; the value of
\* the i-th pair is i + 2
KeyLists == SeqsUpTo({1, 2}, MaxPairs)
HashOf(keys) ==
    HashLiteral([i \in 1..(2 * Len(keys)) |->
        IF i % 2 = 1 THEN IntegerLiteral(keys[(i + 1) \div 2])
        ELSE IntegerLiteral((i \div 2) + 2)])
HashLiterals == {HashOf(keys) : keys \in KeyLists}

\* declarations a program starts with
Declarations ==
    {LetStatement("x", int(1)),
     LetStatement("x", id("x")),
     LetStatement("f", fn(<<>>, <<expr(id("f"))>>)),
     LetStatement("f", fn(<<>>, <<expr(fn(<<>>, <<expr(id("f"))>>))>>)),
     LetStatement("f", fn(<<"f">>, <<expr(id("f"))>>)),
     LetStatement("f", fn(<<>>, <<LetStatement("g", fn(<<>>, <<expr(id("g"))>>)), expr(id("g"))>>)),
     LetStatement("f", fn(<<>>, <<expr(call(id("f"), <<>>))>>)),
     LetStatement("f", fn(<<>>, <<LetStatement("f", int(1)), expr(id("f"))>>))}

\* the statement a program ends with
Statements ==
    Declarations
    \cup {expr(e) : e \in IfExpressions \cup HashLiterals}
    \cup {expr(int(1)), expr(id("x")), expr(InfixExpression("+", id("x"), int(1))),
          expr(call(id("f"), <<>>)), expr(call(call(id("f"), <<>>), <<>>)), expr(call(id("f"), <<int(1)>>)),
          expr(call(fn(<<>>, <<>>), <<>>)),
          expr(call(fn(<<>>, <<expr(id("x"))>>), <<>>)),
          expr(call(fn(<<>>, <<expr(IfExpression(Boolean(TRUE), block(<<>>)))>>), <<>>)),
          expr(call(Identifier("len"), <<ArrayLiteral(<<int(1)>>)>>)),
          LetStatement("x", IfExpression(Boolean(FALSE), block(<<expr(int(1))>>)))}

\* let newAdder = fn(x) { fn(y) { x + y } }; let addTwo = newAdder(2);
\* newAdder(7)(1); addTwo(3);
AdderProgram ==
    Program(<<LetStatement("newAdder",
                 fn(<<"x">>, <<expr(fn(<<"y">>, <<expr(InfixExpression("+", id("x"), id("y")))>>))>>)),
              LetStatement("addTwo", call(id("newAdder"), <<int(2)>>)),
              expr(call(call(id("newAdder"), <<int(7)>>), <<int(1)>>)),
              expr(call(id("addTwo"), <<int(3)>>))>>)

\* calls of function literals whose body ends in a return statement, in
\* an if with a return in its arm, in a let (of a function whose body is
\* an if), in an if with an empty else
FunctionBodies ==
    {<<ReturnStatement(int(1))>>,
     <<expr(IfExpression(Boolean(TRUE), block(<<ReturnStatement(int(1))>>)))>>,
     <<LetStatement("a", fn(<<>>, <<expr(IfExpression(Boolean(TRUE), block(<<>>)))>>))>>,
     <<expr(int(1)), expr(IfElseExpression(Boolean(FALSE), block(<<expr(int(1))>>), block(<<>>)))>>}
BodyPrograms == {Program(<<expr(call(fn(<<>>, body), <<>>))>>) : body \in FunctionBodies}

\* if (true) { if (false) { 1 } } else { 2 }; fn() { if (true) { 1 } else { 2 } }();
NestedIfProgram ==
    Program(<<expr(IfElseExpression(Boolean(TRUE),
                      block(<<expr(IfExpression(Boolean(FALSE), block(<<expr(int(1))>>)))>>),
                      block(<<expr(int(2))>>))),
              expr(call(fn(<<>>, <<expr(IfElseExpression(Boolean(TRUE),
                                            block(<<expr(int(1))>>),
                                            block(<<expr(int(2))>>)))>>), <<>>))>>)

\* programs that use names nothing defines:
\*   a; b;                 1; a; 2;               a < b;
\*   [a, b];               fn() { a }(b);         {2: a, 1: b};
\*   let y = 1; fn(p) { p; y; len; q }; r;
\*   if (true) { 1; a };   let f = fn() { let g = 1; g }; g;
UndefinedPrograms ==
    {Program(<<expr(id("a")), expr(id("b"))>>),
     Program(<<expr(int(1)), expr(id("a")), expr(int(2))>>),
     Program(<<expr(InfixExpression("<", id("a"), id("b")))>>),
     Program(<<expr(ArrayLiteral(<<id("a"), id("b")>>))>>),
     Program(<<expr(call(fn(<<>>, <<expr(id("a"))>>), <<id("b")>>))>>),
     Program(<<expr(HashLiteral(<<int(2), id("a"), int(1), id("b")>>))>>),
     Program(<<LetStatement("y", int(1)),
               expr(fn(<<"p">>, <<expr(id("p")), expr(id("y")), expr(id("len")), expr(id("q"))>>)),
               expr(id("r"))>>),
     Program(<<expr(IfExpression(Boolean(TRUE), block(<<expr(int(1)), expr(id("a"))>>)))>>),
     Program(<<LetStatement("f", fn(<<>>, <<LetStatement("g", int(1)), expr(id("g"))>>)),
               expr(id("g"))>>)}

\* let f = fn(n) { if (n == 0) { 0 } else { f(n - 1) } }; f(2);
CountdownProgram ==
    Program(<<LetStatement("f",
                 fn(<<"n">>, <<expr(IfElseExpression(InfixExpression("==", id("n"), int(0)),
                                       block(<<expr(int(0))>>),
                                       block(<<expr(call(id("f"),
                                                   <<InfixExpression("-", id("n"), int(1))>>))>>)))>>)),
              expr(call(id("f"), <<int(2)>>))>>)

\* let f = fn(n) { 1 + f(n) }; f(1);
DeepProgram ==
    Program(<<LetStatement("f",
                 fn(<<"n">>, <<expr(InfixExpression("+", int(1), call(id("f"), <<id("n")>>)))>>)),
              expr(call(id("f"), <<int(1)>>))>>)

\* let f = fn() { f() }; f();
EndlessProgram ==
    Program(<<LetStatement("f", fn(<<>>, <<expr(call(id("f"), <<>>))>>)),
              expr(call(id("f"), <<>>))>>)

\* calls of the builtins with no argument, with 1, "ab", [], [1, 2], and
\* with two arguments
ArgumentLists ==
    {<<>>, <<int(1)>>, <<StringLiteral("ab")>>, <<ArrayLiteral(<<>>)>>,
     <<ArrayLiteral(<<int(1), int(2)>>)>>,
     <<ArrayLiteral(<<int(1), int(2)>>), int(3)>>, <<int(1), int(3)>>}
BuiltinPrograms ==
    {Program(<<expr(call(id(Builtins[i]), args))>>) : i \in 1..Len(Builtins), args \in ArgumentLists}

\* the operators of an infix expression that the compiler knows
InfixOperators == {"+", "-", "*", "/", ">", "<", "==", "!="}

\* let f = fn(n) { puts(n); n }; f(1) op f(2);
InfixProgram(op) ==
    Program(<<LetStatement("f", fn(<<"n">>, <<expr(call(id("puts"), <<id("n")>>)), expr(id("n"))>>)),
              expr(InfixExpression(op, call(id("f"), <<int(1)>>), call(id("f"), <<int(2)>>)))>>)

InfixPrograms == {InfixProgram(op) : op \in InfixOperators}

\* let f = fn(a, b) { let c = 3; fn(d) { fn() { [c, b, d, a] } } };
\* f(1, 2)(4)();
CaptureProgram ==
    Program(<<LetStatement("f",
                 fn(<<"a", "b">>,
                    <<LetStatement("c", int(3)),
                      expr(fn(<<"d">>,
                              <<expr(fn(<<>>, <<expr(ArrayLiteral(<<id("c"), id("b"), id("d"), id("a")>>))>>))>>))>>)),
              expr(call(call(call(id("f"), <<int(1), int(2)>>), <<int(4)>>), <<>>))>>)

\* parameter lists with a name twice and with the function's own name
ParameterLists == {<<"a", "b">>, <<"a", "a">>, <<"f", "a">>, <<"a", "b", "a">>}

\* let f = fn(p1, p2, ...) { [p1, p2, ...] }; f(1, 2, ...);
ParameterProgram(params) ==
    Program(<<LetStatement("f", fn(params, <<expr(ArrayLiteral([i \in 1..Len(params) |-> id(params[i])]))>>)),
              expr(call(id("f"), [i \in 1..Len(params) |-> int(i)]))>>)

ParameterPrograms == {ParameterProgram(params) : params \in ParameterLists}

\* e wrapped in depth function literals that are called at once:
\* fn() { fn() { e }() }()
RECURSIVE Nested(_, _)
Nested(e, depth) ==
    IF depth = 0 THEN e ELSE call(fn(<<>>, <<expr(Nested(e, depth - 1))>>), <<>>)

\* deepest nesting of the references
MaxNesting == 2

\* let h = 5; let g = 7; [g, name];  with [g, name] at the given depth
NestedProgram(name, depth) ==
    Program(<<LetStatement("h", int(5)), LetStatement("g", int(7)),
              expr(Nested(ArrayLiteral(<<id("g"), id(name)>>), depth))>>)

NestedPrograms ==
    {NestedProgram(Builtins[i], depth) : i \in 1..Len(Builtins), depth \in 0..MaxNesting}

\* fn() { let a = a; a }();
SelfLetProgram ==
    Program(<<expr(call(fn(<<>>, <<LetStatement("a", id("a")), expr(id("a"))>>), <<>>))>>)

\* [1, 2, 3]; fn(c) { if (c) { let a = 1 }; a }(false);
SkippedLetProgram ==
    Program(<<expr(ArrayLiteral(<<int(1), int(2), int(3)>>)),
              expr(call(fn(<<"c">>, <<expr(IfExpression(id("c"), block(<<LetStatement("a", int(1))>>))),
                                      expr(id("a"))>>),
                        <<Boolean(FALSE)>>))>>)

\* longer programs, each written for one behaviour of the machine
Scenarios ==
    {AdderProgram, NestedIfProgram, CountdownProgram, DeepProgram, CaptureProgram,
     SelfLetProgram, SkippedLetProgram}
        \cup ParameterPrograms \cup NestedPrograms
        \cup BodyPrograms \cup UndefinedPrograms \cup BuiltinPrograms \cup InfixPrograms

\* programs: up to MaxStmts - 1 declarations, then one statement; and the
\* scenarios
Programs ==
    {Program(Append(ds, s)) : ds \in SeqsUpTo(Declarations, MaxStmts - 1), s \in Statements}
    \cup Scenarios

\* the orders in which a range over a map of up to MaxPairs pairs can
\* yield the pairs
Orders == {p \in [1..MaxPairs -> 1..MaxPairs] : \A i, j \in 1..MaxPairs : p[i] = p[j] => i = j}

Init ==
    /\ DisIdle
    /\ SymIdle
    /\ CodecIdle
    /\ ReplIdle
    /\ ArrIdle
    /\ HashIdle
    /\ LexIdle
    /\ prog \in Programs
    /\ phase = "parsed"
    /\ cerr = NoError
    /\ bc = NoBytecode
    /\ bc2 = NoBytecode
    /\ vm = NoVM

\* comp := compiler.New(); err := comp.Compile(program); on an error the
\* host reports it and stops
CompileProgram ==
    /\ phase = "parsed"
    /\ \E order \in Orders :
          LET comp == Compile(New, prog, order)
          IN  IF comp.err # NoError
              THEN /\ phase' = "rejected"
                   /\ cerr' = comp.err
                   /\ bc' = bc
              ELSE /\ phase' = "compiled"
                   /\ cerr' = cerr
                   /\ bc' = Bytecode(comp)
    /\ UNCHANGED <<prog, bc2, vm>>
    /\ UNCHANGED notHost

\* the same program compiled once more by a fresh compiler
CompileAgain ==
    /\ phase = "compiled"
    /\ \E order \in Orders : bc2' = Bytecode(Compile(New, prog, order))
    /\ phase' = "compiled twice"
    /\ UNCHANGED <<prog, cerr, bc, vm>>
    /\ UNCHANGED notHost

\* machine := vm.New(comp.Bytecode())
VMNew ==
    /\ phase = "compiled twice"
    /\ vm' = NewVM(bc)
    /\ phase' = "running"
    /\ UNCHANGED <<prog, cerr, bc, bc2>>
    /\ UNCHANGED notHost

\* machine.Run(): one turn of its loop
\* the opcodes that remove the top of the stack and push nothing
PopOps == {OpPop, OpSetGlobal, OpSetLocal, OpJumpNotTruthy}

\* history: the locals written by each frame after the turn from m to m2
LocalsWritten(m, m2) ==
    LET frame == currentFrame(m)
        ins == FrameInstructions(frame)
        ip == frame.ip + 1
        n == Len(m.frames)
    IN  IF m2.status # "running" THEN m.written
        ELSE IF Len(m2.frames) > n THEN Append(m.written, {})
        ELSE IF Len(m2.frames) < n THEN SubSeq(m.written, 1, n - 1)
        ELSE IF ip + 1 < Len(ins) /\ ins[ip + 1] = OpSetLocal
        THEN [m.written EXCEPT ![n] = @ \cup {ins[ip + 2]}]
        ELSE m.written

\* history: m2, the machine after a turn from m, with the value that the
\* turn popped and the locals that the frames have written
Remember(m, m2) ==
    LET frame == currentFrame(m)
        ip == frame.ip + 1
        m3 == [m2 EXCEPT !.written = LocalsWritten(m, m2)]
    IN  IF m2.status = "running" /\ ip < Len(FrameInstructions(frame))
           /\ FrameInstructions(frame)[ip + 1] \in PopOps /\ m.sp >= 1
        THEN [m3 EXCEPT !.lastPop = m.stack[m.sp - 1]]
        ELSE m3

VMStep ==
    /\ phase = "running"
    /\ vm.status = "running"
    /\ vm' = Remember(vm, RunStep(vm))
    /\ UNCHANGED <<prog, phase, cerr, bc, bc2>>
    /\ UNCHANGED notHost

Next == CompileProgram \/ CompileAgain \/ VMNew \/ VMStep

Spec == Init /\ [][Next]_vars

\* programs at the limit of a 1-byte operand: a call of a builtin with
\* 254 to 257 arguments 1, 1, ..., 1 (255 is the most that OpCall's
\* operand can hold)
WidePrograms ==
    {Program(<<expr(call(id(name), [i \in 1..n |-> int(1)]))>>) :
        name \in {"len", "first", "puts"}, n \in 254..257}

\* a host run on one of these programs
WideInit ==
    /\ DisIdle
    /\ SymIdle
    /\ CodecIdle
    /\ ReplIdle
    /\ ArrIdle
    /\ HashIdle
    /\ LexIdle
    /\ prog \in WidePrograms
    /\ phase = "parsed"
    /\ cerr = NoError
    /\ bc = NoBytecode
    /\ bc2 = NoBytecode
    /\ vm = NoVM

WideSpec == WideInit /\ [][Next]_vars

(***************************************************************************)
(* Properties of a host run.                                               *)
(***************************************************************************)
\* the instruction the machine executes next: its offset in the current
\* frame, its opcode (-1 past the end) and its operands
NextInstruction(m) ==
    LET ins == FrameInstructions(currentFrame(m))
        ip == currentFrame(m).ip + 1
    IN  IF ip >= Len(ins) THEN [ip |-> ip, op |-> -1, operands |-> <<>>]
        ELSE [ip |-> ip, op |-> ins[ip + 1],
              operands |-> ReadOperands(Lookup(ins[ip + 1]).def, SliceFrom(ins, ip + 1)).operands]

Running == phase = "running" /\ vm.status = "running"

\* C1: every OpGetGlobal i the machine executes reads a globals slot that
\* an executed OpSetGlobal i has written.
C1_GetGlobalAfterSetGlobal ==
    (Running /\ NextInstruction(vm).op = OpGetGlobal)
        => NextInstruction(vm).operands[1] \in DOMAIN vm.globals

\* the order 1, 2, ... of the pairs of a map
SourceOrder == [i \in 1..MaxPairs |-> i]

\* the program's first statement is an if expression
FirstIsIf ==
    /\ Len(prog.kids) > 0
    /\ prog.kids[1].type = "ExpressionStatement"
    /\ prog.kids[1].kids[1].type = "IfExpression"

\* the offset the OpJump of the first statement's if is patched to: that of
\* the OpPop that ends the statement
FirstIfEnd ==
    Len(Bytecode(Compile(New, Program(<<prog.kids[1]>>), SourceOrder)).Instructions) - 1

\* C2: a program that starts with an if expression, so that the stack is
\* empty before the condition, has exactly one value on the stack when the
\* top-level code reaches the target of the if's OpJump, whichever arm ran
\* and whatever the arms contain.
C2_IfLeavesOneValue ==
    (Running /\ FirstIsIf /\ Len(vm.frames) = 1 /\ NextInstruction(vm).ip = FirstIfEnd)
        => vm.sp = 1

\* C3: every statement has net stack effect zero: Run never pops from an
\* empty stack, and when it has finished the top-level instructions
\* without error, sp = 0 and only frame 0 is left.
C3_StatementsBalanced ==
    phase = "running" =>
        /\ ~(vm.status = "panic" /\ vm.err = "stack underflow")
        /\ vm.status = "done" => (vm.sp = 0 /\ Len(vm.frames) = 1)

\* C5: the second compilation of a program yields the bytecode of the
\* first: the same instruction bytes and the same constants in the same
\* order.
C5_CompileDeterministic ==
    phase \in {"compiled twice", "running"} => bc2 = bc

\* the instructions of a stream from offset p on, decoded
RECURSIVE Decode(_, _)
Decode(ins, p) ==
    IF p >= Len(ins) THEN <<>>
    ELSE LET r == ReadOperands(Lookup(ins[p + 1]).def, SliceFrom(ins, p + 1))
         IN  <<[pos |-> p, op |-> ins[p + 1], operands |-> r.operands]>>
                \o Decode(ins, p + 1 + r.read)

CountOp(d, op) == Cardinality({q \in 1..Len(d) : d[q].op = op})

\* how many times the code of node, in the instruction stream of the
\* function it is written in, loads name: once per reference, and once per
\* function literal that captures name
RECURSIVE Loads(_, _), LoadsOfKids(_, _, _)
Loads(node, name) ==
    IF node.type = "Identifier" THEN (IF node.s = name THEN 1 ELSE 0)
    ELSE IF node.type = "FunctionLiteral"
    THEN (IF \E q \in 1..Len(node.names) : node.names[q] = name THEN 0
          ELSE IF LoadsOfKids(node, name, 1) > 0 THEN 1 ELSE 0)
    ELSE LoadsOfKids(node, name, 1)
LoadsOfKids(node, name, i) ==
    IF i > Len(node.kids) THEN 0
    ELSE Loads(node.kids[i], name) + LoadsOfKids(node, name, i + 1)

\* node contains a let of name
RECURSIVE Defines(_, _)
Defines(node, name) ==
    \/ node.type = "LetStatement" /\ node.s = name
    \/ \E i \in 1..Len(node.kids) : Defines(node.kids[i], name)

HasParameter(lit, name) == \E q \in 1..Len(lit.names) : lit.names[q] = name

\* the i-th smallest element of a set of numbers
Nth(S, i) == CHOOSE e \in S : Cardinality({y \in S : y < e}) = i - 1

\* the statements of stmts that are let name = fn..., and the places in the
\* decoded stream d where an OpClosure is followed by setOp
LetFns(stmts) ==
    {k \in 1..Len(stmts) : stmts[k].type = "LetStatement"
                              /\ stmts[k].kids[1].type = "FunctionLiteral"}
ClosureSets(d, setOp) ==
    {j \in 1..(Len(d) - 1) : d[j].op = OpClosure /\ d[j + 1].op = setOp}

\* the function named by let statement stmt, compiled to fnc, refers to
\* itself as the claim says
SelfReferenceOK(stmt, fnc, constants) ==
    LET lit == stmt.kids[1]
        d == Decode(fnc.Instructions, 0)
    IN  /\ fnc.t = "COMPILED_FUNCTION_OBJ"
        /\ HasParameter(lit, stmt.s) => CountOp(d, OpCurrentClosure) = 0
        /\ (Len(lit.kids[1].kids) > 0 /\ lit.kids[1].kids[1].type = "LetStatement"
               /\ lit.kids[1].kids[1].s = stmt.s /\ Loads(lit.kids[1].kids[1], stmt.s) = 0)
              => CountOp(d, OpCurrentClosure) = 0
        /\ (~HasParameter(lit, stmt.s) /\ ~Defines(lit.kids[1], stmt.s)) =>
              /\ CountOp(d, OpCurrentClosure) = LoadsOfKids(lit.kids[1], stmt.s, 1)
              /\ \A q \in 1..Len(lit.kids[1].kids) :
                    LET e == lit.kids[1].kids[q]
                    IN  (e.type = "ExpressionStatement" /\ e.kids[1].type = "FunctionLiteral"
                         /\ Loads(e.kids[1], stmt.s) = 1) =>
                            \E j \in 1..(Len(d) - 1) :
                               /\ d[j].op = OpCurrentClosure
                               /\ d[j + 1].op = OpClosure
                               /\ d[j + 1].operands[2] >= 1
                               /\ CountOp(Decode(constants[d[j + 1].operands[1] + 1].Instructions, 0),
                                          OpGetFree) >= 1

\* the let name = fn... statements of stmts, compiled to the stream ins:
\* each has its OpClosure followed by setOp and refers to itself as claimed
LetFnsOK(stmts, ins, constants, setOp) ==
    LET d == Decode(ins, 0)
    IN  /\ Cardinality(ClosureSets(d, setOp)) = Cardinality(LetFns(stmts))
        /\ \A i \in 1..Cardinality(LetFns(stmts)) :
              SelfReferenceOK(stmts[Nth(LetFns(stmts), i)],
                              constants[d[Nth(ClosureSets(d, setOp), i)].operands[1] + 1],
                              constants)

\* C10: for every let name = fn... at the top level, and every such let
\* directly in the body of one: the name inside the body compiles to
\* OpCurrentClosure, once per reference and once per nested function that
\* captures it (which loads it with OpGetFree), never when a parameter has
\* the name or the body starts with a let of the name, and the let's
\* OpClosure is followed by OpSetGlobal (OpSetLocal in a function body).
C10_SelfReference ==
    phase = "compiled" =>
        /\ LetFnsOK(prog.kids, bc.Instructions, bc.Constants, OpSetGlobal)
        /\ \A i \in 1..Cardinality(LetFns(prog.kids)) :
              LET d == Decode(bc.Instructions, 0)
                  stmt == prog.kids[Nth(LetFns(prog.kids), i)]
                  fnc == bc.Constants[d[Nth(ClosureSets(d, OpSetGlobal), i)].operands[1] + 1]
              IN  LetFnsOK(stmt.kids[1].kids[1].kids, fnc.Instructions, bc.Constants, OpSetLocal)

\* a program was compiled in which a function nested in a named function
\* refers to the name, and one in which a function body has a let of a
\* function that refers to itself
C10_Witness ==
    /\ phase = "compiled"
    /\ \E k \in LetFns(prog.kids) :
          LET lit == prog.kids[k].kids[1]
          IN  /\ ~HasParameter(lit, prog.kids[k].s)
              /\ lit.kids[1].kids[1].type = "ExpressionStatement"
              /\ lit.kids[1].kids[1].kids[1].type = "FunctionLiteral"
              /\ Loads(lit.kids[1].kids[1].kids[1], prog.kids[k].s) = 1
    /\ \E k \in LetFns(prog.kids) : LetFns(prog.kids[k].kids[1].kids[1].kids) # {}

\* the step is a turn of Run's loop (the only step of a running machine)
RunTurn == Running

Min(a, b) == IF a < b THEN a ELSE b

\* C11: OpClosure c m builds a closure whose free variables are the m
\* values then on top of the stack; the closure of a live frame never
\* changes, whatever is written to the stack; OpGetFree i pushes free
\* variable i of the running closure; and addTwo(3), run after the frame
\* of newAdder(2) is gone and its slots were used by newAdder(7)(1),
\* yields 5.
C11_ClosureKeepsFree ==
    /\ [][RunTurn =>
            LET ni == NextInstruction(vm)
            IN  /\ (ni.op = OpClosure /\ vm'.status = "running") =>
                      /\ vm'.sp = vm.sp - ni.operands[2] + 1
                      /\ vm'.stack[vm'.sp - 1].Free = TopValues(vm, ni.operands[2])
                /\ (ni.op = OpGetFree /\ vm'.status = "running") =>
                      /\ vm'.sp = vm.sp + 1
                      /\ vm'.stack[vm.sp] = currentFrame(vm).cl.Free[ni.operands[1] + 1]
                /\ \A k \in 1..Min(Len(vm.frames), Len(vm'.frames)) :
                      vm'.frames[k].cl = vm.frames[k].cl]_vars
    /\ [](phase = "running" /\ prog = AdderProgram /\ vm.status # "running"
            => /\ vm.status = "done"
               /\ LastPoppedStackItem(vm).t = "INTEGER"
               /\ LastPoppedStackItem(vm).v = 5)

\* addTwo is about to read its captured 2 while no slot of the stack in
\* use holds a 2 any more
C11_Witness ==
    /\ Running /\ prog = AdderProgram
    /\ NextInstruction(vm).op = OpGetFree
    /\ currentFrame(vm).cl.Free = <<Integer(2)>>
    /\ \A i \in 0..(vm.sp - 1) : vm.stack[i].t = "INTEGER" => vm.stack[i].v # 2
    /\ 0 \in DOMAIN vm.globals /\ 1 \in DOMAIN vm.globals

\* the CompiledFunction constants of a bytecode
Functions(b) ==
    {k \in 1..Len(b.Constants) : b.Constants[k].t = "COMPILED_FUNCTION_OBJ"}

LastOp(ins) == LET d == Decode(ins, 0) IN IF Len(d) = 0 THEN -1 ELSE d[Len(d)].op

\* C12: the instructions of every CompiledFunction constant end in
\* OpReturnValue or OpReturn, and a function's frame never reaches the end
\* of its instructions.
C12_FunctionsEndInReturn ==
    /\ phase = "compiled" =>
          \A k \in Functions(bc) :
             LastOp(bc.Constants[k].Instructions) \in {OpReturnValue, OpReturn}
    /\ (Running /\ Len(vm.frames) > 1) => NextInstruction(vm).op # -1

\* compiled: a function whose body ends in a let (OpReturn was added) and
\* one whose body ends in an if expression (its OpPop became OpReturnValue)
C12_Witness ==
    /\ phase = "compiled"
    /\ \E k \in Functions(bc) :
          LET d == Decode(bc.Constants[k].Instructions, 0)
          IN  Len(d) >= 2 /\ d[Len(d)].op = OpReturn /\ d[Len(d) - 1].op = OpSetLocal
    /\ \E k \in Functions(bc) :
          LET d == Decode(bc.Constants[k].Instructions, 0)
          IN  Len(d) >= 2 /\ d[Len(d)].op = OpReturnValue /\ d[Len(d) - 1].op = OpNull

\* the instruction streams of a bytecode: the top level and each function
Streams(b) ==
    {b.Instructions} \cup {b.Constants[k].Instructions : k \in Functions(b)}

\* the jumps of a stream, decoded
Jumps(ins) ==
    LET d == Decode(ins, 0)
    IN  {d[q] : q \in {j \in 1..Len(d) : d[j].op \in {OpJump, OpJumpNotTruthy}}}

\* the offsets at which the instructions of a stream start
Starts(ins) == LET d == Decode(ins, 0) IN {d[q].pos : q \in 1..Len(d)}

\* the operand Compile emits for a jump it patches later
Placeholder == 9999

\* C13: after a successful compile the operand of every OpJump and
\* OpJumpNotTruthy of every instruction stream is the offset of an
\* instruction of that stream, or the length of the stream, and no
\* placeholder is left.
C13_JumpsPatched ==
    phase = "compiled" =>
        \A ins \in Streams(bc) : \A j \in Jumps(ins) :
            /\ j.operands[1] \in Starts(ins) \cup {Len(ins)}
            /\ j.operands[1] # Placeholder

\* compiled: a top-level stream with the jumps of a nested if, and a
\* function with the jumps of an if
C13_Witness ==
    /\ phase = "compiled"
    /\ Cardinality(Jumps(bc.Instructions)) >= 4
    /\ \E k \in Functions(bc) : Cardinality(Jumps(bc.Constants[k].Instructions)) = 2

\* the largest number of arguments of a call in node, 0 if it has no call
RECURSIVE MostArguments(_)
MostArguments(node) ==
    LET counts == {MostArguments(node.kids[i]) : i \in 1..Len(node.kids)}
                     \cup {IF node.type = "CallExpression" THEN Len(node.kids) - 1 ELSE 0}
    IN  CHOOSE m \in counts : \A n \in counts : n <= m

\* C14: no program is compiled whose argument count does not fit the
\* 1-byte operand of OpCall: a call with 256 or more arguments makes
\* compilation fail, it is never emitted with the count modulo 256.
C14_NoSilentWrap ==
    phase = "compiled" =>
        /\ MostArguments(prog) < 256
        /\ SliceFrom(bc.Instructions, Len(bc.Instructions) - 3)
              = <<OpCall, MostArguments(prog), OpPop>>

\* the names of the builtin functions
BuiltinNames == {Builtins[i] : i \in 1..Len(Builtins)}

\* the first identifier of node, in the order the compiler visits the
\* nodes, that names nothing visible where it stands ("" if there is none),
\* and the names visible after node; env is the set of names visible
\* before node
RECURSIVE Undefined(_, _), UndefinedIn(_, _, _)
UndefinedIn(nodes, i, env) ==
    IF i > Len(nodes) THEN [env |-> env, name |-> ""]
    ELSE LET r == Undefined(nodes[i], env)
         IN  IF r.name # "" THEN r ELSE UndefinedIn(nodes, i + 1, r.env)

Undefined(node, env) ==
    CASE node.type = "Identifier" ->
            [env |-> env, name |-> IF node.s \in env THEN "" ELSE node.s]
      [] node.type = "LetStatement" ->
            Undefined(node.kids[1], env \cup {node.s})
      [] node.type = "FunctionLiteral" ->
            LET inner == env \cup (IF node.s # "" THEN {node.s} ELSE {})
                             \cup {node.names[i] : i \in 1..Len(node.names)}
            IN  [env |-> env, name |-> Undefined(node.kids[1], inner).name]
      [] node.type = "InfixExpression" /\ node.s = "<" ->
            UndefinedIn(<<node.kids[2], node.kids[1]>>, 1, env)
      [] node.type = "HashLiteral" ->
            LET n == Len(node.kids) \div 2
                keys == SortKeys(RangePairs(node, [i \in 1..n |-> i]), n)
            IN  UndefinedIn([i \in 1..(2 * n) |->
                                IF i % 2 = 1 THEN keys[(i + 1) \div 2].key
                                ELSE keys[i \div 2].value], 1, env)
      [] OTHER -> UndefinedIn(node.kids, 1, env)

\* the number of statements of the program before the first one with an
\* undefined name in it
RECURSIVE StatementsBefore(_, _)
StatementsBefore(p, k) ==
    IF k = Len(p.kids) \/ UndefinedIn(p.kids, 1, BuiltinNames).name
                             = UndefinedIn(SubSeq(p.kids, 1, k + 1), 1, BuiltinNames).name
    THEN k ELSE StatementsBefore(p, k + 1)

\* the instructions of the outermost scope when the compilation of the
\* program returned
MainInstructions(p) == Compile(New, p, SourceOrder).scopes[1].instructions

\* C16: a program is rejected exactly when it uses a name that resolves in
\* no scope, the error is "undefined variable <name>" for the first such
\* name in the order the compiler visits the nodes, and nothing is emitted
\* after the error: the outermost scope holds the code of the statements
\* before the failing one, followed by what the failing statement emitted
\* before the name, which does not end in the statement's own OpPop or
\* OpSetGlobal.
C16_UndefinedVariable ==
    LET name == UndefinedIn(prog.kids, 1, BuiltinNames).name
        k == StatementsBefore(prog, 0)
        before == MainInstructions(Program(SubSeq(prog.kids, 1, k)))
        main == MainInstructions(prog)
    IN  /\ phase = "rejected" => name # "" /\ cerr = Errorf("undefined variable", name)
        /\ phase \in {"compiled", "compiled twice", "running"} => name = ""
        /\ phase = "rejected" =>
              /\ Len(main) >= Len(before)
              /\ SubSeq(main, 1, Len(before)) = before
              /\ prog.kids[k + 1].kids[1].type # "IfExpression" =>
                    LastOp(SliceFrom(main, Len(before))) \notin {OpPop, OpSetGlobal}

\* a rejected program whose undefined name q stands in a function, after a
\* statement that was compiled, after names that resolve, and before
\* another undefined name
C16_Witness ==
    /\ phase = "rejected"
    /\ cerr = Errorf("undefined variable", "q")
    /\ StatementsBefore(prog, 0) = 1
    /\ Len(MainInstructions(prog)) > 0

\* the machine is about to execute OpCall: the number of arguments and
\* the value called
CallTurn == RunTurn /\ NextInstruction(vm).op = OpCall
               /\ vm.sp - 1 - NextInstruction(vm).operands[1] >= 0
NumArgs == NextInstruction(vm).operands[1]
Callee == vm.stack[vm.sp - 1 - NumArgs]

\* C19: OpCall n on a closure whose function has another number of
\* parameters than n fails with "wrong number of arguments: want=<number
\* of parameters>, got=<n>" and pushes no frame; OpCall n on a value that
\* is neither a closure nor a builtin fails with "calling non-function".
C19_CallErrors ==
    [][CallTurn =>
          /\ (Callee.t = "CLOSURE" /\ Callee.Fn.NumParameters # NumArgs) =>
                /\ vm'.status = "error"
                /\ vm'.err = "wrong number of arguments: want=%d, got=%d"
                /\ vm'.errArgs = <<Callee.Fn.NumParameters, NumArgs>>
                /\ Len(vm'.frames) = Len(vm.frames)
                /\ vm'.sp = vm.sp
          /\ Callee.t \notin {"CLOSURE", "BUILTIN"} =>
                /\ vm'.status = "error"
                /\ vm'.err = "calling non-function"
                /\ Len(vm'.frames) = Len(vm.frames)]_vars

\* a function of one parameter was called with no argument
C19_Witness ==
    /\ phase = "running"
    /\ vm.status = "error"
    /\ vm.err = "wrong number of arguments: want=%d, got=%d"
    /\ vm.errArgs = <<1, 0>>
    /\ Len(vm.frames) = 1

\* C20: OpCall n on a closure of n parameters pushes a frame with ip = -1
\* and base pointer sp - n, over the callee and its arguments; no turn
\* changes the base pointer of a frame that stays; OpReturnValue and
\* OpReturn pop the frame and leave, where the callee stood, the value
\* returned (Null for OpReturn), with sp just above it and the stack below
\* untouched.  So a call is replaced by exactly one value, at any depth:
\* the countdown f(2), which calls itself twice, ends with an empty stack
\* and the value 0.
C20_CallReturnDiscipline ==
    /\ [][RunTurn /\ vm'.status = "running" =>
            LET ni == NextInstruction(vm)
                bp == currentFrame(vm).basePointer
            IN  /\ (ni.op = OpCall /\ CallTurn /\ Callee.t = "CLOSURE") =>
                      /\ Len(vm'.frames) = Len(vm.frames) + 1
                      /\ currentFrame(vm').ip = -1
                      /\ currentFrame(vm').basePointer = vm.sp - NumArgs
                      /\ currentFrame(vm').cl = Callee
                      /\ vm'.sp = vm.sp - NumArgs + Callee.Fn.NumLocals
                      /\ \A i \in 0..(vm.sp - 1) : vm'.stack[i] = vm.stack[i]
                /\ ni.op \in {OpReturnValue, OpReturn} =>
                      /\ Len(vm'.frames) = Len(vm.frames) - 1
                      /\ vm'.sp = bp
                      /\ IF ni.op = OpReturn THEN vm'.stack[bp - 1].t = "NULL"
                         ELSE vm'.stack[bp - 1] = vm.stack[vm.sp - 1]
                      /\ \A i \in 0..(bp - 2) : vm'.stack[i] = vm.stack[i]
                /\ \A k \in 1..Min(Len(vm.frames), Len(vm'.frames)) :
                      vm'.frames[k].basePointer = vm.frames[k].basePointer]_vars
    /\ [](phase = "running" /\ prog = CountdownProgram /\ vm.status # "running"
            => /\ vm.status = "done"
               /\ vm.sp = 0
               /\ LastPoppedStackItem(vm).t = "INTEGER"
               /\ LastPoppedStackItem(vm).v = 0)

\* the countdown has run to its end; and a frame of the third call of f,
\* made by f itself, is on the frame stack
C20_Witness ==
    /\ phase = "running"
    /\ prog = CountdownProgram
    /\ Len(vm.frames) = 4
    /\ NextInstruction(vm).op = OpReturnValue

\* the opcodes that push a value and pop none
Pushing == {OpConstant, OpTrue, OpFalse, OpNull, OpGetGlobal, OpGetLocal, OpGetBuiltin,
            OpGetFree, OpCurrentClosure}

\* C21: running out of stack or frames is a runtime error of the run: a
\* push on a full stack ends the run with "stack overflow", a call of a
\* closure when the frame stack is full ends it with "frame overflow", no
\* run ever indexes the stack outside its bounds, and the two programs
\* that recurse without end stop with one of the two errors.
C21_ExhaustionIsError ==
    /\ [][RunTurn =>
            /\ (NextInstruction(vm).op \in Pushing /\ vm.sp >= StackSize) =>
                  vm'.status = "error" /\ vm'.err = "stack overflow"
            /\ (CallTurn /\ Callee.t = "CLOSURE" /\ Callee.Fn.NumParameters = NumArgs
                    /\ Len(vm.frames) >= MaxFrames) =>
                  vm'.status = "error" /\ vm'.err = "frame overflow"]_vars
    /\ [](phase = "running" =>
            /\ vm.sp <= StackSize
            /\ Len(vm.frames) <= MaxFrames
            /\ DOMAIN vm.stack = 0..(StackSize - 1)
            /\ vm.status = "panic" => vm.err # "index out of range")
    /\ [](phase = "running" /\ prog \in {DeepProgram, EndlessProgram} /\ vm.status # "running"
            => vm.status = "error" /\ vm.err \in {"stack overflow", "frame overflow"})

\* the run of f(n) = 1 + f(n) has ended with a stack overflow, in a call
\* of f by f
C21_Witness ==
    /\ phase = "running"
    /\ prog = DeepProgram
    /\ vm.status = "error"
    /\ vm.err = "stack overflow"
    /\ vm.sp = StackSize
    /\ Len(vm.frames) > 2

\* the machine is about to call a builtin with arguments that are values
BuiltinTurn ==
    /\ CallTurn
    /\ Callee.t = "BUILTIN"
    /\ \A i \in 1..NumArgs : TopValues(vm, NumArgs)[i].t # "nil"

\* C22: OpCall n on a builtin pushes no frame, does not end the run, and
\* leaves in the place of the builtin and its n arguments one value: the
\* value returned; Null for first, last and rest of an empty array and for
\* puts; an Error value when the number of arguments or the type of the
\* argument is wrong.
C22_BuiltinCall ==
    [][BuiltinTurn =>
          LET name == Builtins[Callee.v + 1]
              args == TopValues(vm, NumArgs)
              result == vm'.stack[vm'.sp - 1]
              count == IF name = "push" THEN 2 ELSE 1
              supported == IF name = "len" THEN {"STRING", "ARRAY"} ELSE {"ARRAY"}
          IN  /\ vm'.status = "running"
              /\ Len(vm'.frames) = Len(vm.frames)
              /\ vm'.sp = vm.sp - NumArgs
              /\ \A i \in 0..(vm'.sp - 2) : vm'.stack[i] = vm.stack[i]
              /\ IF name = "puts" THEN result.t = "NULL"
                 ELSE IF NumArgs # count \/ args[1].t \notin supported THEN result.t = "ERROR"
                 ELSE IF name = "len"
                 THEN /\ result.t = "INTEGER"
                      /\ result.v = IF args[1].t = "STRING" THEN Len(Bytes(args[1].v))
                                    ELSE Len(args[1].Elements)
                 ELSE IF name = "push" THEN result.t = "ARRAY"
                 ELSE IF args[1].Elements = <<>> THEN result.t = "NULL"
                 ELSE IF name = "first" THEN result = args[1].Elements[1]
                 ELSE IF name = "last" THEN result = args[1].Elements[Len(args[1].Elements)]
                 ELSE result.t = "ARRAY"]_vars

\* first([]) has run to its end without error and its value was Null
C22_Witness ==
    /\ phase = "running"
    /\ prog = Program(<<expr(call(id("first"), <<ArrayLiteral(<<>>)>>))>>)
    /\ vm.status = "done"
    /\ LastPoppedStackItem(vm).t = "NULL"

\* C24: when the run has ended without error, LastPoppedStackItem is the
\* value removed by the most recent pop: nothing executed after that pop
\* has written to the slot stack[sp]; and every pop leaves the value it
\* removed in the slot it freed.
C24_LastPoppedKept ==
    /\ [](phase = "running" /\ vm.status = "done" /\ vm.lastPop.t # "nil" =>
            /\ LastPoppedStackItem(vm).t = vm.lastPop.t
            /\ LastPoppedStackItem(vm) = vm.lastPop)
    /\ [][(RunTurn /\ NextInstruction(vm).op \in PopOps /\ vm'.status = "running") =>
            /\ vm'.sp = vm.sp - 1
            /\ vm'.stack[vm'.sp].t = vm.stack[vm.sp - 1].t
            /\ vm'.stack[vm'.sp] = vm.stack[vm.sp - 1]]_vars

\* the run of the adders has ended: since the first pop, calls were made,
\* local slots reserved and values returned, and the last value popped is
\* the 5 of addTwo(3)
C24_Witness ==
    /\ phase = "running"
    /\ prog = AdderProgram
    /\ vm.status = "done"
    /\ vm.lastPop.t = "INTEGER"
    /\ vm.lastPop.v = 5
    /\ LastPoppedStackItem(vm).t = "INTEGER"

(***************************************************************************)
(* Make and ReadOperands on one instruction: Make encodes an opcode and    *)
(* operands, ReadOperands decodes the bytes after the opcode.              *)
(***************************************************************************)
\* the values tried for an operand of a width: the least and the greatest
\* that fit, values between, and the first that does not fit
OperandValues(width) == IF width = 1 THEN {0, 1, 255, 256} ELSE {0, 255, 256, 65535, 65536}

\* the operand tuples tried for a list of widths
OperandTuples(widths) ==
    {t \in [1..Len(widths) -> {0, 1, 255, 256, 65535, 65536}] :
        \A i \in 1..Len(widths) : t[i] \in OperandValues(widths[i])}

CodecInit ==
    /\ DisIdle
    /\ SymIdle
    /\ HostIdle
    /\ ReplIdle
    /\ ArrIdle
    /\ HashIdle
    /\ LexIdle
    /\ \E op \in DOMAIN definitions :
          \E operands \in OperandTuples(definitions[op].OperandWidths) :
             codec = [pc |-> "input", op |-> op, operands |-> operands]

\* ins := Make(op, operands...)
CodecMake ==
    /\ codec.pc = "input"
    /\ codec' = [pc |-> "made", op |-> codec.op, operands |-> codec.operands,
                 made |-> Make(codec.op, codec.operands)]
    /\ UNCHANGED notCodec

\* def, _ := Lookup(ins[0]); operands, n := ReadOperands(def, ins[1:])
CodecRead ==
    /\ codec.pc = "made"
    /\ codec' = [pc |-> "read", op |-> codec.op, operands |-> codec.operands,
                 made |-> codec.made,
                 read |-> ReadOperands(Lookup(codec.made[1]).def, SliceFrom(codec.made, 1))]
    /\ UNCHANGED notCodec

CodecNext == CodecMake \/ CodecRead

CodecSpec == CodecInit /\ [][CodecNext]_vars

RECURSIVE SumWidths(_, _)
SumWidths(widths, i) == IF i > Len(widths) THEN 0 ELSE widths[i] + SumWidths(widths, i + 1)

\* every operand fits the width of its place
Fits(widths, operands) ==
    \A i \in 1..Len(widths) : operands[i] < (IF widths[i] = 1 THEN 256 ELSE 65536)

\* C15: for a defined opcode and operands that fit its widths, Make gives
\* 1 + sum of widths bytes that start with the opcode, a 2-byte first
\* operand is stored high byte first, and ReadOperands on the bytes after
\* the opcode gives the operands back and the sum of widths as bytes read.
C15_RoundTrip ==
    LET widths == definitions[codec.op].OperandWidths
    IN  /\ (codec.pc \in {"made", "read"} /\ Fits(widths, codec.operands)) =>
              /\ Len(codec.made) = 1 + SumWidths(widths, 1)
              /\ codec.made[1] = codec.op
              /\ (Len(widths) > 0 /\ widths[1] = 2) =>
                    /\ codec.made[2] = codec.operands[1] \div 256
                    /\ codec.made[3] = codec.operands[1] % 256
        /\ (codec.pc = "read" /\ Fits(widths, codec.operands)) =>
              /\ ~codec.read.panic
              /\ codec.read.operands = codec.operands
              /\ codec.read.read = SumWidths(widths, 1)

\* OpClosure 65535 255 was encoded and read back
C15_Witness ==
    /\ codec.pc = "read"
    /\ codec.op = OpClosure
    /\ codec.operands = <<65535, 255>>
    /\ codec.made = <<OpClosure, 255, 255, 255>>


(***************************************************************************)
(* The REPL (repl.go, Start): one symbol table, one constants slice and    *)
(* one globals store for all inputs.  A turn of the loop reads a line,     *)
(* compiles it with NewWithState, runs it on a machine that shares the     *)
(* globals, and prints the last popped value.                              *)
(***************************************************************************)
\* most inputs of a session
MaxInputs == 3

\* the lines typed:  let x = 1;   let x = 2;   let y = 3;   x;   y;   5;
\*   let x = a;   4; let y = a;   let y = x();   and the empty line
ReplLines ==
    {Program(<<>>),
     Program(<<LetStatement("x", int(1))>>),
     Program(<<LetStatement("x", int(2))>>),
     Program(<<LetStatement("y", int(3))>>),
     Program(<<expr(id("x"))>>),
     Program(<<expr(id("y"))>>),
     Program(<<expr(int(5))>>),
     Program(<<LetStatement("x", id("a"))>>),
     Program(<<expr(int(4)), LetStatement("y", id("a"))>>),
     Program(<<LetStatement("y", call(id("x"), <<>>))>>)}

\* the compiler works on the symbol table and the constants it is given
NewWithState(s, constants) == [New EXCEPT !.st = <<s>>, !.constants = constants]

\* the machine works on the globals it is given
NewWithGlobalsStore(bytecode, globals) == [NewVM(bytecode) EXCEPT !.globals = globals]

\* history: the names bound by the let statements of a line that was
\* compiled and run without error, each with the index it was given and
\* the value stored there
Bind(bound, line, table, globals) ==
    LET names == {line.kids[i].s : i \in {j \in 1..Len(line.kids) : line.kids[j].type = "LetStatement"}}
    IN  [name \in DOMAIN bound \cup names |->
            IF name \in names
            THEN [index |-> table.store[name].Index,
                  value |-> globals[table.store[name].Index]]
            ELSE bound[name]]

ReplInit ==
    /\ DisIdle
    /\ SymIdle
    /\ HostIdle
    /\ CodecIdle
    /\ ArrIdle
    /\ HashIdle
    /\ LexIdle
    /\ repl = [pc |-> "prompt",
               symbolTable |-> DefineBuiltins(NewSymbolTable, Len(Builtins)),
               constants |-> <<>>,
               globals |-> [i \in {} |-> Nil],
               machine |-> NoVM,
               n |-> 0,
               line |-> NoProgram,
               result |-> "none",
               out |-> Nil,
               bound |-> [name \in {} |-> [index |-> 0, value |-> Nil]]]

\* a line that parses is read and compiled.  The symbol table is shared
\* with the compiler through a pointer, so what the compiler defines stays
\* defined whatever the outcome; the constants are taken over after a
\* compilation without error, and a machine is made that shares the
\* globals.
ReplLine ==
    /\ repl.pc = "prompt"
    /\ repl.n < MaxInputs
    /\ \E line \in ReplLines :
          LET comp == Compile(NewWithState(repl.symbolTable, repl.constants), line, SourceOrder)
              code == Bytecode(comp)
              read == [repl EXCEPT !.n = repl.n + 1, !.line = line, !.out = Nil,
                                   !.symbolTable = comp.st[1]]
          IN  repl' =
                 IF comp.err # NoError THEN [read EXCEPT !.result = "compile error"]
                 ELSE [read EXCEPT !.result = "compiled", !.pc = "running",
                                   !.constants = code.Constants,
                                   !.machine = NewWithGlobalsStore(code, repl.globals)]
    /\ UNCHANGED notRepl

\* machine.Run(): one turn of the run loop; what it stores in the globals
\* is stored in the globals of the REPL
ReplRun ==
    /\ repl.pc = "running"
    /\ repl.machine.status = "running"
    /\ LET m == RunStep(repl.machine)
       IN  repl' = [repl EXCEPT !.machine = m, !.globals = m.globals]
    /\ UNCHANGED notRepl

\* Run has returned: the error is reported, or the last popped value is
\* printed.  Inspect() on the nil that the machine returns for a slot
\* never written is a nil dereference.
ReplPrint ==
    /\ repl.pc = "running"
    /\ repl.machine.status # "running"
    /\ LET lastPopped == LastPoppedStackItem(repl.machine)
           ran == [repl EXCEPT !.machine = NoVM, !.pc = "prompt"]
       IN  repl' =
              IF repl.machine.status = "panic"
              THEN [ran EXCEPT !.result = "panic", !.pc = "crashed"]
              ELSE IF repl.machine.status = "error" THEN [ran EXCEPT !.result = "runtime error"]
              ELSE IF lastPopped.t = "nil"
              THEN [ran EXCEPT !.result = "panic", !.pc = "crashed"]
              ELSE [ran EXCEPT !.result = "ok", !.out = lastPopped,
                               !.bound = Bind(repl.bound, repl.line, repl.symbolTable, repl.globals)]
    /\ UNCHANGED notRepl

\* end of input
ReplEnd ==
    /\ repl.pc = "prompt"
    /\ repl' = [repl EXCEPT !.pc = "exited"]
    /\ UNCHANGED notRepl

ReplNext == ReplLine \/ ReplRun \/ ReplPrint \/ ReplEnd

ReplSpec == ReplInit /\ [][ReplNext]_vars

\* the names of the symbol table that are globals
GlobalNames(table) == {name \in DOMAIN table.store : table.store[name].Scope = GlobalScope}

\* C17: the symbol table, the constants and the globals are kept from one
\* input to the next: at every prompt, a name bound by a let that was
\* compiled and run without error has the global index and the value it
\* was given by the last such let; an input that is just this name prints
\* this value; different global names have different indices; and the
\* constants of earlier inputs keep their indices.
C17_StatePersists ==
    /\ [](repl.pc = "prompt" =>
            \A name \in DOMAIN repl.bound :
               /\ name \in GlobalNames(repl.symbolTable)
               /\ repl.symbolTable.store[name].Index = repl.bound[name].index
               /\ repl.bound[name].index \in DOMAIN repl.globals
               /\ repl.globals[repl.bound[name].index] = repl.bound[name].value)
    /\ [](repl.pc # "idle" =>
            \A a, b \in GlobalNames(repl.symbolTable) :
               a # b => repl.symbolTable.store[a].Index # repl.symbolTable.store[b].Index)
    /\ [][repl.pc \in {"prompt", "running"} =>
            /\ Len(repl'.constants) >= Len(repl.constants)
            /\ SubSeq(repl'.constants, 1, Len(repl.constants)) = repl.constants
            /\ \A name \in DOMAIN repl.bound :
                  (repl.line = Program(<<expr(id(name))>>) /\ repl.pc = "running"
                      /\ repl'.pc # "running")
                  => repl'.result = "ok" /\ repl'.out = repl.bound[name].value]_vars

\* C18: an input that fails to compile changes nothing that is kept: the
\* loop prompts again with the symbol table, the constants and the globals
\* it had before the input.
C18_FailedInputPreserves ==
    [][(repl.pc = "prompt" /\ repl'.pc # "exited" /\ repl'.result = "compile error") =>
          /\ repl'.pc = "prompt"
          /\ repl'.symbolTable = repl.symbolTable
          /\ repl'.constants = repl.constants
          /\ repl'.globals = repl.globals]_vars


(***************************************************************************)
(* Arrays as the host has them: an Array value is a pointer to an object   *)
(* with a slice of elements, and the same pointer can be held by a global, *)
(* by a local slot and by a closure.  The builtins push and rest are       *)
(* called on the arrays that are held.                                     *)
(***************************************************************************)
\* most arrays made
MaxOps == 4

\* the array literals evaluated: [], [1], [1, 2]
ArrayLiterals == {<<>>, <<1>>, <<1, 2>>}

\* who holds a pointer: a global, a local slot, a free variable
Holders == <<"global", "local", "free">>

\* &Array{Elements: elements}: a new object, after those of the heap
NewArray(heap, elements) == [heap |-> Append(heap, elements), result |-> Len(heap) + 1]

\* push that appends to the elements of its argument and returns it
pushFn_InPlace(heap, a, v) == [heap |-> [heap EXCEPT ![a] = Append(heap[a], v)], result |-> a]

\* push: newElements := make([]Object, length+1); copy(newElements,
\* arg.Elements); newElements[length] = args[1]
pushFn(heap, a, v) ==
    LET length == Len(heap[a])
        newElements == [i \in 1..(length + 1) |-> IF i <= length THEN heap[a][i] ELSE v]
    IN  NewArray(heap, newElements)

\* rest: newElements := make([]Object, length-1); copy(newElements,
\* arg.Elements[1:length]); nil (result 0) for an empty array
restFn(heap, a) ==
    LET length == Len(heap[a])
        newElements == [i \in 1..(length - 1) |-> heap[a][i + 1]]
    IN  IF length > 0 THEN NewArray(heap, newElements) ELSE [heap |-> heap, result |-> 0]

ArrInit ==
    /\ DisIdle
    /\ SymIdle
    /\ HostIdle
    /\ CodecIdle
    /\ ReplIdle
    /\ HashIdle
    /\ LexIdle
    /\ arr = [pc |-> "run",
              heap |-> <<>>,
              holders |-> [h \in {"global", "local", "free"} |-> 0],
              n |-> 0,
              op |-> [name |-> "none", a |-> 0, v |-> 0, result |-> 0]]

\* the holder that takes the result of the next operation
Target == Holders[(arr.n % 3) + 1]

\* what an operation leaves: the heap, the result in its holder
Done(name, a, v, r) ==
    [arr EXCEPT !.heap = r.heap, !.holders[Target] = r.result, !.n = arr.n + 1,
                !.op = [name |-> name, a |-> a, v |-> v, result |-> r.result]]

\* an array literal is evaluated
ArrNew ==
    /\ arr.pc = "run"
    /\ arr.n < MaxOps
    /\ \E elements \in ArrayLiterals : arr' = Done("new", 0, 0, NewArray(arr.heap, elements))
    /\ UNCHANGED notArr

\* push(a, v) for an array a that is held
ArrPush ==
    /\ arr.pc = "run"
    /\ arr.n < MaxOps
    /\ \E h \in {"global", "local", "free"}, v \in {1, 2} :
          /\ arr.holders[h] # 0
          /\ arr' = Done("push", arr.holders[h], v, pushFn(arr.heap, arr.holders[h], v))
    /\ UNCHANGED notArr

\* rest(a) for an array a that is held
ArrRest ==
    /\ arr.pc = "run"
    /\ arr.n < MaxOps
    /\ \E h \in {"global", "local", "free"} :
          /\ arr.holders[h] # 0
          /\ arr' = Done("rest", arr.holders[h], 0, restFn(arr.heap, arr.holders[h]))
    /\ UNCHANGED notArr

ArrNext == ArrNew \/ ArrPush \/ ArrRest

ArrSpec == ArrInit /\ [][ArrNext]_vars

\* C23: push(a, v) returns a new array of len(a) + 1 elements, those of a
\* and then v; rest(a) of a non-empty a returns a new array of the
\* elements of a after the first; and after the call every array that
\* existed has the elements it had, so that whoever holds a (a global, a
\* local slot, a closure) still sees the original.
C23_ArraysNotMutated ==
    [][(arr.pc = "run" /\ arr'.op.name \in {"push", "rest"}) =>
          LET a == arr'.op.a
              r == arr'.op.result
              old == arr.heap[a]
          IN  /\ \A k \in 1..Len(arr.heap) : arr'.heap[k] = arr.heap[k]
              /\ \A h \in {"global", "local", "free"} \ {Target} : arr'.holders[h] = arr.holders[h]
              /\ arr'.op.name = "push" =>
                    /\ r > Len(arr.heap)
                    /\ Len(arr'.heap[r]) = Len(old) + 1
                    /\ SubSeq(arr'.heap[r], 1, Len(old)) = old
                    /\ arr'.heap[r][Len(old) + 1] = arr'.op.v
              /\ (arr'.op.name = "rest" /\ old # <<>>) =>
                    /\ r > Len(arr.heap)
                    /\ arr'.heap[r] = Tail(old)
              /\ (arr'.op.name = "rest" /\ old = <<>>) => r = 0]_vars

\* [1] is held by the global while push([1], 1) and push([1], 2) are held
\* by the local slot and the closure
C23_Witness ==
    /\ arr.pc = "run"
    /\ arr.op.name = "push"
    /\ arr.holders["global"] # 0 /\ arr.heap[arr.holders["global"]] = <<1>>
    /\ arr.holders["local"] # 0 /\ arr.heap[arr.holders["local"]] = <<1, 1>>
    /\ arr.holders["free"] # 0 /\ arr.heap[arr.holders["free"]] = <<1, 2>>

\* sequence a is the beginning of sequence b
IsPrefix(a, b) == Len(a) <= Len(b) /\ SubSeq(b, 1, Len(a)) = a

\* the instructions of the outermost scope after the first statement of
\* program p and the left operand of the infix expression of its second
LeftFirst(p) ==
    LET c1 == Compile(New, Program(<<p.kids[1]>>), SourceOrder)
    IN  Compile(c1, p.kids[2].kids[1].kids[1], SourceOrder).scopes[1].instructions

\* C26: in  let f = fn(n) { puts(n); n }; f(1) op f(2);  with any operator,
\* the code of the statement begins with the code of the left operand, and
\* what the program has written is at any time a beginning of the lines
\* 1, 2: the left operand is evaluated before the right one.
C26_LeftToRight ==
    prog \in InfixPrograms =>
        /\ phase \notin {"idle", "parsed", "rejected"} =>
              IsPrefix(LeftFirst(prog), bc.Instructions)
        /\ vm.status # "idle" => IsPrefix(vm.out, <<Digits(1), Digits(2)>>)

\* f(1) + f(2) has run to its end, having written 1 and then 2, and left 3
C26_PlusInOrder ==
    /\ prog = InfixProgram("+")
    /\ vm.status = "done"
    /\ vm.out = <<Digits(1), Digits(2)>>
    /\ vm.lastPop.t = "INTEGER" /\ vm.lastPop.v = 3

\* f(1) < f(2) has run to its end, having written 2 and then 1
C26_LessRightFirst ==
    /\ prog = InfixProgram("<")
    /\ vm.status = "done"
    /\ vm.out = <<Digits(2), Digits(1)>>
    /\ vm.lastPop.t = "BOOLEAN" /\ vm.lastPop.v = TRUE

\* the opcodes and operands of a stream
Listing(ins) ==
    LET d == Decode(ins, 0) IN [q \in 1..Len(d) |-> <<d[q].op>> \o d[q].operands]

\* the indices i of the OpGetFree i of a stream
FreeIndices(ins) ==
    LET d == Decode(ins, 0) IN {d[q].operands[1] : q \in {r \in 1..Len(d) : d[r].op = OpGetFree}}

\* every OpClosure c m of stream ins follows m loads of a local, a free
\* variable or the current closure, and the OpGetFree of function c have
\* the indices 0..m-1
ClosuresLoaded(b, ins) ==
    LET d == Decode(ins, 0)
    IN  \A q \in 1..Len(d) :
           d[q].op = OpClosure =>
              LET m == d[q].operands[2]
                  fnc == b.Constants[d[q].operands[1] + 1]
              IN  /\ q > m
                  /\ \A j \in 1..m : d[q - j].op \in {OpGetLocal, OpGetFree, OpCurrentClosure}
                  /\ fnc.t = "COMPILED_FUNCTION_OBJ"
                  /\ FreeIndices(fnc.Instructions) = 0..(m - 1)

\* C31: in every instruction stream every OpClosure c m comes right after
\* m loads, none of a global or a builtin, and the OpGetFree i of function
\* c have exactly the indices below m.  In
\*   let f = fn(a, b) { let c = 3; fn(d) { fn() { [c, b, d, a] } } };
\* the loads are in the order of capture (c, b, d, a in fn(d), which holds d
\* as its local 0 and the others as its free variables 0, 1, 2; c, b, a in
\* f, which holds them as locals 2, 1, 0), and f(1, 2)(4)() is [3, 2, 4, 1].
C31_FreeLoads ==
    /\ phase = "compiled" => \A ins \in Streams(bc) : ClosuresLoaded(bc, ins)
    /\ (phase = "compiled" /\ prog = CaptureProgram) =>
          /\ Listing(bc.Constants[2].Instructions) =
                <<<<OpGetFree, 0>>, <<OpGetFree, 1>>, <<OpGetFree, 2>>, <<OpGetFree, 3>>,
                  <<OpArray, 4>>, <<OpReturnValue>>>>
          /\ Listing(bc.Constants[3].Instructions) =
                <<<<OpGetFree, 0>>, <<OpGetFree, 1>>, <<OpGetLocal, 0>>, <<OpGetFree, 2>>,
                  <<OpClosure, 1, 4>>, <<OpReturnValue>>>>
          /\ Listing(bc.Constants[4].Instructions) =
                <<<<OpConstant, 0>>, <<OpSetLocal, 2>>,
                  <<OpGetLocal, 2>>, <<OpGetLocal, 1>>, <<OpGetLocal, 0>>,
                  <<OpClosure, 2, 3>>, <<OpReturnValue>>>>
    /\ (phase = "running" /\ prog = CaptureProgram /\ vm.status # "running") =>
          /\ vm.status = "done"
          /\ vm.lastPop.t = "ARRAY"
          /\ vm.lastPop.Elements = <<Integer(3), Integer(2), Integer(4), Integer(1)>>

\* the innermost function of the program is about to read d, its free
\* variable 2, which fn(d) loaded from its local 0
C31_Witness ==
    /\ Running /\ prog = CaptureProgram
    /\ Len(vm.frames) = 2
    /\ NextInstruction(vm).op = OpGetFree /\ NextInstruction(vm).operands = <<2>>
    /\ currentFrame(vm).cl.Free = <<Integer(3), Integer(2), Integer(4), Integer(1)>>

\* the numbers of parameters of the function literals of node, in the order
\* in which the compiler adds their CompiledFunction to the constants: a
\* literal after the literals in its body, the operands of < right to left
\* (no program here has a function literal in a hash literal)
RECURSIVE ParamCounts(_), ParamCountsOf(_, _)
ParamCounts(node) ==
    LET kids == IF node.type = "InfixExpression" /\ node.s = "<"
                THEN <<node.kids[2], node.kids[1]>> ELSE node.kids
    IN  ParamCountsOf(kids, 1)
            \o (IF node.type = "FunctionLiteral" THEN <<Len(node.names)>> ELSE <<>>)
ParamCountsOf(nodes, i) ==
    IF i > Len(nodes) THEN <<>> ELSE ParamCounts(nodes[i]) \o ParamCountsOf(nodes, i + 1)

\* the indices of the OpGetLocal and OpSetLocal of a stream
LocalIndices(ins) ==
    LET d == Decode(ins, 0)
    IN  {d[q].operands[1] : q \in {r \in 1..Len(d) : d[r].op \in {OpGetLocal, OpSetLocal}}}

\* the position of the last parameter that has the name of parameter i
LastNamed(params, i) ==
    CHOOSE j \in 1..Len(params) :
        /\ params[j] = params[i]
        /\ \A k \in (j + 1)..Len(params) : params[k] # params[i]

\* C32: the CompiledFunctions of a compiled program have, in the order of
\* the constants, the numbers of parameters of the program's function
\* literals; NumLocals is at least NumParameters and above every index of
\* an OpGetLocal or OpSetLocal of the function; so the machine never lowers
\* sp when it reserves the locals of a call.  In
\*   let f = fn(p1, ..., pn) { [p1, ..., pn] }; f(1, ..., n);
\* parameter number i is local i - 1, a name stands for the last parameter
\* that has it (also when it is the function's own name), and the call
\* yields the arguments of these parameters.
C32_ParametersAreLocals ==
    /\ phase = "compiled" =>
          /\ [i \in 1..Cardinality(Functions(bc)) |->
                  bc.Constants[Nth(Functions(bc), i)].NumParameters] = ParamCounts(prog)
          /\ \A k \in Functions(bc) :
                LET fnc == bc.Constants[k]
                IN  /\ fnc.NumLocals >= fnc.NumParameters
                    /\ \A i \in LocalIndices(fnc.Instructions) : i < fnc.NumLocals
    /\ (Running /\ NextInstruction(vm).op = OpCall
          /\ vm.sp > NextInstruction(vm).operands[1]
          /\ vm.stack[vm.sp - 1 - NextInstruction(vm).operands[1]].t = "CLOSURE") =>
          LET callee == vm.stack[vm.sp - 1 - NextInstruction(vm).operands[1]]
          IN  callee.Fn.NumParameters = NextInstruction(vm).operands[1] =>
                 callee.Fn.NumLocals - NextInstruction(vm).operands[1] >= 0
    /\ \A params \in ParameterLists :
          (prog \in ParameterPrograms /\ prog = ParameterProgram(params)) =>
             /\ phase = "compiled" =>
                   /\ bc.Constants[1].NumParameters = Len(params)
                   /\ bc.Constants[1].NumLocals = Len(params)
                   /\ Listing(bc.Constants[1].Instructions) =
                         [i \in 1..Len(params) |-> <<OpGetLocal, LastNamed(params, i) - 1>>]
                            \o <<<<OpArray, Len(params)>>, <<OpReturnValue>>>>
             /\ (phase = "running" /\ vm.status # "running") =>
                   /\ vm.status = "done"
                   /\ vm.lastPop.t = "ARRAY"
                   /\ vm.lastPop.Elements =
                         [i \in 1..Len(params) |-> Integer(LastNamed(params, i))]

\* let f = fn(a, b, a) { [a, b, a] }; f(1, 2, 3);  has yielded [3, 2, 3]
C32_Witness ==
    /\ prog = ParameterProgram(<<"a", "b", "a">>)
    /\ phase = "running" /\ vm.status = "done"
    /\ vm.lastPop.t = "ARRAY"
    /\ vm.lastPop.Elements = <<Integer(3), Integer(2), Integer(3)>>

\* the compiler as Compile has left it is in its top-level scope
Balanced(comp) ==
    /\ comp.scopeIndex = 0
    /\ Len(comp.scopes) = 1
    /\ comp.symbolTable = New.symbolTable
    /\ Bytecode(comp).Instructions = comp.scopes[1].instructions

\* C33: when Compile has returned, with or without an error, the compiler
\* is in scope 0, its symbol table is the one it was constructed with, and
\* Bytecode() yields the instructions of the top-level scope.
C33_ScopesBalanced ==
    phase \in {"compiled", "rejected"} =>
        \A order \in Orders : Balanced(Compile(New, prog, order))

\* C33, where no error was returned
C33_BalancedWithoutError ==
    phase = "compiled" => \A order \in Orders : Balanced(Compile(New, prog, order))

\* fn() { a }(b);  is rejected for the name a, and the compiler is left in
\* the scope of the function's body with the body's enclosed symbol table
C33_LeftInBody ==
    /\ prog = Program(<<expr(call(fn(<<>>, <<expr(id("a"))>>), <<id("b")>>))>>)
    /\ phase = "rejected"
    /\ cerr = Errorf("undefined variable", "a")
    /\ \A order \in Orders :
          LET comp == Compile(New, prog, order)
          IN  /\ comp.scopeIndex = 1
              /\ Len(comp.scopes) = 2
              /\ comp.symbolTable = 2
              /\ comp.st[comp.symbolTable].Outer = New.symbolTable
              /\ Bytecode(comp).Instructions = <<>>

\* the OpGetBuiltin indices of a stream
BuiltinIndices(ins) ==
    LET d == Decode(ins, 0)
    IN  {d[q].operands[1] : q \in {r \in 1..Len(d) : d[r].op = OpGetBuiltin}}

\* the free counts of the OpClosure of a stream
FreeCounts(ins) ==
    LET d == Decode(ins, 0)
    IN  {d[q].operands[2] : q \in {r \in 1..Len(d) : d[r].op = OpClosure}}

\* the code of [g, name] for the global g of index 1 and the builtin of
\* index i, before the instruction that ends the statement or the body
NestedLoads(i) == <<<<OpGetGlobal, 1>>, <<OpGetBuiltin, i>>, <<OpArray, 2>>>>

\* C34: every OpGetBuiltin of a compiled program has an index of the
\* registry.  In  let h = 5; let g = 7; [g, name];  with [g, name] inside 0,
\* 1 or 2 function literals and name a builtin, the reference to name is
\* OpGetBuiltin i with Builtins[i] the name and the reference to g is
\* OpGetGlobal 1, at every depth; no function has a free variable; and the
\* run yields [7, the builtin registered at i].
C34_BuiltinsAndGlobalsAtDepth ==
    /\ phase = "compiled" =>
          \A ins \in Streams(bc) : \A i \in BuiltinIndices(ins) : i < Len(Builtins)
    /\ \A i \in 1..Len(Builtins), depth \in 0..MaxNesting :
          (prog \in NestedPrograms /\ prog = NestedProgram(Builtins[i], depth)) =>
             /\ phase = "compiled" =>
                   /\ \A ins \in Streams(bc) : FreeCounts(ins) \subseteq {0} /\ FreeIndices(ins) = {}
                   /\ Cardinality(Functions(bc)) = depth
                   /\ \A k \in Functions(bc) : bc.Constants[k].NumLocals = 0
                   /\ IF depth = 0
                      THEN SubSeq(Listing(bc.Instructions), 5, 8) =
                              NestedLoads(i - 1) \o <<<<OpPop>>>>
                      ELSE /\ Listing(bc.Constants[3].Instructions) =
                                 NestedLoads(i - 1) \o <<<<OpReturnValue>>>>
                           /\ SubSeq(Listing(bc.Instructions), 5, 7) =
                                 <<<<OpClosure, depth + 1, 0>>, <<OpCall, 0>>, <<OpPop>>>>
                   /\ depth = 2 =>
                         Listing(bc.Constants[4].Instructions) =
                            <<<<OpClosure, 2, 0>>, <<OpCall, 0>>, <<OpReturnValue>>>>
             /\ (phase = "running" /\ vm.status # "running") =>
                   /\ vm.status = "done"
                   /\ vm.lastPop = Array(<<Integer(7), Builtin(i - 1)>>)

\* inside two function literals the machine is about to run OpGetBuiltin 5
\* for the name puts, with the global g already loaded
C34_Witness ==
    /\ prog = NestedProgram("puts", 2)
    /\ Builtins[6] = "puts"
    /\ Running
    /\ Len(vm.frames) = 3
    /\ NextInstruction(vm).op = OpGetBuiltin
    /\ NextInstruction(vm).operands = <<5>>
    /\ vm.stack[vm.sp - 1] = Integer(7)

\* C35: an OpGetLocal i that is about to run reads a parameter of the
\* frame's function or a local that an OpSetLocal i of the same call has
\* written.
C35_LocalsWrittenBeforeRead ==
    (Running /\ NextInstruction(vm).op = OpGetLocal) =>
        \/ NextInstruction(vm).operands[1] < currentFrame(vm).cl.Fn.NumParameters
        \/ NextInstruction(vm).operands[1] \in vm.written[Len(vm.frames)]

\* C35 on the programs that have no let whose name is read before its
\* OpSetLocal has run
C35_OtherProgramsWriteFirst ==
    prog \notin {SelfLetProgram, SkippedLetProgram} => C35_LocalsWrittenBeforeRead

\* in  fn() { let a = a; a }();  the value of the let reads local 0 before
\* any OpSetLocal of the call has run
C35_ReadBeforeLet ==
    /\ prog = SelfLetProgram
    /\ Running
    /\ Listing(bc.Constants[1].Instructions) =
          <<<<OpGetLocal, 0>>, <<OpSetLocal, 0>>, <<OpGetLocal, 0>>, <<OpReturnValue>>>>
    /\ Len(vm.frames) = 2
    /\ currentFrame(vm).ip = -1
    /\ NextInstruction(vm).op = OpGetLocal
    /\ vm.written[2] = {}

\* [1, 2, 3]; fn(c) { if (c) { let a = 1 }; a }(false);  yields 3, the value
\* that the array literal left in the slot of a
C35_StaleValue ==
    /\ prog = SkippedLetProgram
    /\ phase = "running" /\ vm.status = "done"
    /\ vm.lastPop = Integer(3)

\* C36: at every prompt of a REPL session, each global name of the
\* symbol table has a slot of the globals store that an OpSetGlobal has
\* written; and an OpGetGlobal that is about to run reads a written slot.
C36_GlobalsAreSet ==
    /\ repl.pc = "prompt" =>
          \A name \in GlobalNames(repl.symbolTable) :
             repl.symbolTable.store[name].Index \in DOMAIN repl.globals
    /\ (repl.pc = "running" /\ repl.machine.status = "running"
          /\ NextInstruction(repl.machine).op = OpGetGlobal) =>
          NextInstruction(repl.machine).operands[1] \in DOMAIN repl.machine.globals

\* >> let x = a;  has failed to compile at the first prompt, and x is a
\* global of the symbol table with a slot that nothing has written
C36_UnsetAfterCompileError ==
    /\ repl.pc = "prompt"
    /\ repl.n = 1
    /\ repl.line = Program(<<LetStatement("x", id("a"))>>)
    /\ repl.result = "compile error"
    /\ "x" \in GlobalNames(repl.symbolTable)
    /\ repl.symbolTable.store["x"].Index = 0
    /\ DOMAIN repl.globals = {}

\* >> let x = 1;  >> let y = x();  has failed at run time, and y is a
\* global of the symbol table with a slot that nothing has written
C36_UnsetAfterRuntimeError ==
    /\ repl.pc = "prompt"
    /\ repl.n = 2
    /\ repl.line = Program(<<LetStatement("y", call(id("x"), <<>>))>>)
    /\ repl.result = "runtime error"
    /\ "y" \in GlobalNames(repl.symbolTable)
    /\ repl.symbolTable.store["y"].Index = 1
    /\ DOMAIN repl.globals = {0}

\* >> let x = a;  >> x;  the second input is about to read global 0
C36_ReadsUnset ==
    /\ repl.pc = "running"
    /\ repl.n = 2
    /\ repl.line = Program(<<expr(id("x"))>>)
    /\ repl.machine.status = "running"
    /\ NextInstruction(repl.machine).op = OpGetGlobal
    /\ NextInstruction(repl.machine).operands = <<0>>
    /\ DOMAIN repl.machine.globals = {}

\* C37: when the machine has run an input of the REPL without error, the
\* REPL prints the last popped value, which is a value, and is at the
\* prompt again.
C37_ResultPrinted ==
    [][(repl.pc = "running" /\ repl.machine.status = "done" /\ repl'.pc # "running") =>
          /\ LastPoppedStackItem(repl.machine).t # "nil"
          /\ repl'.pc = "prompt"
          /\ repl'.result = "ok"
          /\ repl'.out = LastPoppedStackItem(repl.machine)]_vars

\* the empty line at the first prompt compiles to no instruction, runs
\* without error, and the REPL stops in Inspect() on nil
C37_EmptyLineCrashes ==
    /\ repl.pc = "crashed"
    /\ repl.n = 1
    /\ repl.line = Program(<<>>)
    /\ repl.result = "panic"

\* >> let x = 1;  pops nothing with OpPop and prints 1, the value that
\* OpSetGlobal has taken from the stack
C37_LetPrints ==
    /\ repl.pc = "prompt"
    /\ repl.n = 1
    /\ repl.line = Program(<<LetStatement("x", int(1))>>)
    /\ repl.result = "ok"
    /\ repl.out = Integer(1)

\* the compiler inside the FunctionLiteral case, after Compile(node.Body)
\* and before the last OpPop is replaced
BodyState(c, node, perm) ==
    LET c1 == enterScope(c)
        c2 == IF node.s # ""
              THEN [c1 EXCEPT !.st[c1.symbolTable] =
                        DefineFunctionName(c1.st[c1.symbolTable], node.s).table]
              ELSE c1
    IN  Compile(defineParameters(c2, node.names, 1), node.kids[1], perm)

\* the compiler inside the IfExpression case, after Compile(node.Consequence)
\* and before the last OpPop is removed
ConsequenceState(c, node, perm) ==
    Compile(emit(Compile(c, node.kids[1], perm), OpJumpNotTruthy, <<9999>>), node.kids[2], perm)

\* the compiler inside the IfExpression case, after Compile(node.Alternative)
AlternativeState(c, node, perm) ==
    LET c3 == ConsequenceState(c, node, perm)
        c4 == IF lastInstructionIs(c3, OpPop) THEN removeLastPop(c3) ELSE c3
        c5 == emit(c4, OpJump, <<9999>>)
    IN  Compile(changeOperand(c5, Len(currentInstructions(Compile(c, node.kids[1], perm))),
                              Len(currentInstructions(c5))),
                node.kids[3], perm)

\* the states of the compiler inside the if expression node
IfStates(c, node, perm) ==
    IF node.type # "IfExpression" THEN <<>>
    ELSE <<ConsequenceState(c, node, perm)>>
            \o (IF Len(node.kids) = 3 THEN <<AlternativeState(c, node, perm)>> ELSE <<>>)

\* the states of the compiler inside the function literal node: after its
\* body, and inside an if expression that begins the body
FunctionStates(c, node, perm) ==
    IF node.type # "FunctionLiteral" THEN <<>>
    ELSE LET c1 == enterScope(c)
             c2 == IF node.s # ""
                   THEN [c1 EXCEPT !.st[c1.symbolTable] =
                             DefineFunctionName(c1.st[c1.symbolTable], node.s).table]
                   ELSE c1
             stmts == node.kids[1].kids
         IN  <<BodyState(c, node, perm)>>
                \o (IF Len(stmts) > 0 /\ stmts[1].type = "ExpressionStatement"
                    THEN IfStates(defineParameters(c2, node.names, 1), stmts[1].kids[1], perm)
                    ELSE <<>>)

\* the states of the compiler while it compiles statement stmt from state c
StatementStates(c, stmt, perm) ==
    IF stmt.type = "LetStatement"
    THEN FunctionStates([c EXCEPT !.st[c.symbolTable] = Define(c.st[c.symbolTable], stmt.s).table],
                        stmt.kids[1], perm)
    ELSE IF stmt.type = "ExpressionStatement"
    THEN IfStates(c, stmt.kids[1], perm)
            \o FunctionStates(c, stmt.kids[1], perm)
            \o (IF stmt.kids[1].type = "CallExpression"
                THEN FunctionStates(c, stmt.kids[1].kids[1], perm) ELSE <<>>)
    ELSE <<>>

\* states of the compiler during Compile(program): after each statement of
\* the program, and inside the function literals and if expressions of the
\* statements
RECURSIVE CompilerStates(_, _, _)
CompilerStates(program, k, perm) ==
    LET c == Compile(New, Program(SubSeq(program.kids, 1, k)), perm)
    IN  IF k = Len(program.kids) THEN <<c>>
        ELSE <<c>> \o StatementStates(c, program.kids[k + 1], perm)
                 \o CompilerStates(program, k + 1, perm)

\* node is or contains a hash literal
RECURSIVE HasHashLiteral(_)
HasHashLiteral(node) ==
    \/ node.type = "HashLiteral"
    \/ \E i \in 1..Len(node.kids) : HasHashLiteral(node.kids[i])

\* the orders of the pairs that make a difference for program
OrdersOf(program) == IF HasHashLiteral(program) THEN Orders ELSE {SourceOrder}

\* lastInstruction is the final instruction of the current scope's stream
Tracked(c) ==
    LET ins == currentInstructions(c)
        d == Decode(ins, 0)
        last == currentScope(c).lastInstruction
    IN  Len(ins) > 0 =>
           /\ last.Position = d[Len(d)].pos
           /\ last.Opcode = ins[last.Position + 1]

\* emit appends the instruction at the end of the stream, records it as
\* the last instruction at that position and the former last as previous
EmitTracks(c, op, operands) ==
    LET e == emit(c, op, operands)
    IN  /\ currentInstructions(e) = currentInstructions(c) \o Make(op, operands)
        /\ currentScope(e).lastInstruction = EmittedInstruction(op, Len(currentInstructions(c)))
        /\ currentScope(e).previousInstruction = currentScope(c).lastInstruction
        /\ Tracked(e)

\* the offsets of the jumps of the current scope
JumpOffsets(c) ==
    LET d == Decode(currentInstructions(c), 0)
    IN  {d[q].pos : q \in {r \in 1..Len(d) : d[r].op \in {OpJump, OpJumpNotTruthy}}}

\* C38: in the states the compiler is in after each statement, after the
\* body of a function literal and after the branches of an if expression,
\* lastInstruction is the final instruction of the current scope (its
\* position and its opcode byte); this stays so after emit, after
\* removeLastPop and replaceLastPopWithReturn where the last instruction is
\* OpPop, and after changeOperand on a jump; and emit puts the instruction
\* at the former length of the stream and makes the former last
\* instruction the previous one.
C38_LastInstructionTracked ==
    phase = "compiled" =>
        \A order \in OrdersOf(prog) :
            \A cs \in {CompilerStates(prog, 0, order)} :
                \A n \in DOMAIN cs :
                   \A c \in {cs[n]} :
                       c.err = NoError =>
                          /\ Tracked(c)
                          /\ EmitTracks(c, OpPop, <<>>)
                          /\ EmitTracks(c, OpConstant, <<Len(c.constants)>>)
                          /\ EmitTracks(c, OpJump, <<9999>>)
                          /\ lastInstructionIs(c, OpPop) =>
                                /\ Tracked(removeLastPop(c))
                                /\ Len(currentInstructions(removeLastPop(c))) =
                                      Len(currentInstructions(c)) - 1
                                /\ Tracked(replaceLastPopWithReturn(c))
                                /\ currentScope(replaceLastPopWithReturn(c)).lastInstruction =
                                      EmittedInstruction(OpReturnValue, Len(currentInstructions(c)) - 1)
                          /\ \A pos \in JumpOffsets(c) :
                                /\ Tracked(changeOperand(c, pos, 7))
                                /\ currentScope(changeOperand(c, pos, 7)).lastInstruction =
                                      currentScope(c).lastInstruction

\* if (true) { if (false) { 1 } } else { 2 }; ... is compiled: after the
\* consequence the last instruction is the OpNull of the inner if followed
\* by OpPop, and removeLastPop leaves OpNull as the last instruction
C38_Witness ==
    /\ prog = NestedIfProgram
    /\ phase = "compiled"
    /\ LET c == ConsequenceState(New, prog.kids[1].kids[1], SourceOrder)
       IN  /\ c.err = NoError
           /\ lastInstructionIs(c, OpPop)
           /\ currentScope(c).previousInstruction.Opcode = OpNull
           /\ currentScope(removeLastPop(c)).lastInstruction.Opcode = OpNull
           /\ Tracked(removeLastPop(c))
           /\ Len(currentInstructions(removeLastPop(c))) = Len(currentInstructions(c)) - 1

(***************************************************************************)
(* HashKey on every pair of hashable objects (object.go).                  *)
(***************************************************************************)
MaxHashCalls == 3

\* the hashable values: integers, booleans and strings, two of which are
\* 16 characters long
HashableValues ==
    <<Integer(-1), Integer(0), Integer(1), Integer(2),
      BooleanObject(FALSE), BooleanObject(TRUE),
      String(""), String("a"), String("b"), String("ab"),
      String("38449a8264b90af6"), String("3049633cfb3c7f58")>>

\* an object as allocated: a String has no cached hash key
Allocated(o) == [t |-> o.t, v |-> o.v, hashKey |-> Nil]

HashInit ==
    /\ DisIdle
    /\ SymIdle
    /\ HostIdle
    /\ CodecIdle
    /\ ReplIdle
    /\ ArrIdle
    /\ LexIdle
    /\ \E i \in DOMAIN HashableValues, j \in DOMAIN HashableValues :
          hashed = [pc |-> "run",
                    objs |-> <<Allocated(HashableValues[i]), Allocated(HashableValues[j])>>,
                    keys |-> <<Nil, Nil>>,
                    n |-> 0]

\* o.HashKey() on one of the two objects
HashCall ==
    /\ hashed.pc = "run"
    /\ hashed.n < MaxHashCalls
    /\ \E i \in 1..2 :
          LET o == hashed.objs[i]
              r == IF o.t = "STRING" THEN StringHashKey(o)
                   ELSE [key |-> HashKey(o), s |-> o]
          IN  hashed' = [hashed EXCEPT !.objs[i] = r.s,
                                        !.keys[i] = [t |-> "key", Type |-> r.key.Type, Value |-> r.key.Value],
                                        !.n = hashed.n + 1]
    /\ UNCHANGED notHash

HashNext == HashCall
HashSpec == HashInit /\ [][HashNext]_vars

\* the two objects are equal under ==
EqualObjects == hashed.objs[1].t = hashed.objs[2].t /\ SameValue(hashed.objs[1], hashed.objs[2])

SameKey == /\ hashed.keys[1].Type = hashed.keys[2].Type
           /\ hashed.keys[1].Value = hashed.keys[2].Value

\* C25: once HashKey() was called on two hashable objects, the keys are
\* equal exactly if the objects are equal under == (so an Integer and a
\* Boolean never share a key), and the key a String returns, cached or not,
\* is the FNV-1a hash of its bytes.
C25_HashKeyIffEqual ==
    (hashed.pc = "run" /\ hashed.keys[1].t = "key" /\ hashed.keys[2].t = "key") =>
        /\ SameKey <=> EqualObjects
        /\ \A i \in 1..2 :
              hashed.objs[i].t = "STRING" =>
                  hashed.keys[i].Value = Sum64(Bytes(hashed.objs[i].v))

\* what holds: equal objects have equal keys, objects of different types
\* have different keys, and the cached key of a String is the fresh one
C25_EqualGivesSameKey ==
    (hashed.pc = "run" /\ hashed.keys[1].t = "key" /\ hashed.keys[2].t = "key") =>
        /\ EqualObjects => SameKey
        /\ hashed.objs[1].t # hashed.objs[2].t => ~SameKey
        /\ \A i \in 1..2 :
              hashed.objs[i].t = "STRING" =>
                  /\ hashed.keys[i].Value = Sum64(Bytes(hashed.objs[i].v))
                  /\ hashed.objs[i].hashKey.t = "ptr"
                  /\ hashed.objs[i].hashKey.Value = hashed.keys[i].Value

\* the two different strings with FNV-1a hash 0x2fba27efe87acf8e
C25_Collision ==
    /\ hashed.pc = "run"
    /\ hashed.objs[1].t = "STRING" /\ hashed.objs[1].v = "38449a8264b90af6"
    /\ hashed.objs[2].t = "STRING" /\ hashed.objs[2].v = "3049633cfb3c7f58"
    /\ hashed.keys[1].t = "key" /\ hashed.keys[2].t = "key"
    /\ hashed.keys[1].Value = <<53134, 59514, 10223, 12218>>
    /\ SameKey
    /\ hashed.n = 3

(***************************************************************************)
(* Package lexer.  Characters are bytes; a string is a sequence of bytes. *)
(***************************************************************************)
\* v, evaluated once, handed to Op
Eager(v, Op(_)) == CHOOSE r \in {Op(w) : w \in {v}} : TRUE

Token(type, literal) == [Type |-> type, Literal |-> literal]

\* token.LookupIdent: the keywords map, Ident for every other literal
LookupIdent(ident) ==
    CASE ident = <<102, 110>> -> "Function"
      [] ident = <<108, 101, 116>> -> "Let"
      [] ident = <<116, 114, 117, 101>> -> "True"
      [] ident = <<102, 97, 108, 115, 101>> -> "False"
      [] ident = <<105, 102>> -> "If"
      [] ident = <<101, 108, 115, 101>> -> "Else"
      [] ident = <<114, 101, 116, 117, 114, 110>> -> "Return"
      [] OTHER -> "Ident"

\* 'a' <= ch <= 'z' || 'A' <= ch <= 'Z' || ch == '_'
isLetter(ch) == (97 <= ch /\ ch <= 122) \/ (65 <= ch /\ ch <= 90) \/ ch = 95

isDigit(ch) == 48 <= ch /\ ch <= 57

\* input[position], positions counted from 0
At(input, position) == input[position + 1]

readChar(l) ==
    [l EXCEPT !.ch = IF l.readPosition >= Len(l.input) THEN 0 ELSE At(l.input, l.readPosition),
              !.position = l.readPosition,
              !.readPosition = l.readPosition + 1]

peekChar(l) == IF l.readPosition >= Len(l.input) THEN 0 ELSE At(l.input, l.readPosition)

\* lexer.New
NewLexer(input) == readChar([input |-> input, position |-> 0, readPosition |-> 0, ch |-> 0])

\* skipComment that runs to the end of the input
RECURSIVE skipComment_ToEnd(_)
skipComment_ToEnd(l) == IF l.ch # 0 THEN Eager(readChar(l), skipComment_ToEnd) ELSE l

\* the inner loop of skipWhitespace: advance until newline or EOF
RECURSIVE skipComment(_)
skipComment(l) == IF l.ch # 10 /\ l.ch # 0 THEN Eager(readChar(l), skipComment) ELSE l

RECURSIVE skipWhitespace(_)
skipWhitespace(l) ==
    IF l.ch \in {32, 9, 10, 13} THEN Eager(readChar(l), skipWhitespace)
    ELSE IF l.ch = 47 /\ peekChar(l) = 47
    THEN Eager(skipComment(readChar(readChar(l))), skipWhitespace)
    ELSE l

\* the loop of readIdentifier: for isLetter(l.ch) { l.readChar() }
RECURSIVE readIdentifierLoop(_)
readIdentifierLoop(l) == IF isLetter(l.ch) THEN Eager(readChar(l), readIdentifierLoop) ELSE l

\* the lexer afterwards and l.input[position:l.position]
readIdentifier(l) ==
    LET after == readIdentifierLoop(l)
    IN  [l |-> after, lit |-> SubSeq(l.input, l.position + 1, after.position)]

RECURSIVE readNumberLoop(_)
readNumberLoop(l) == IF isDigit(l.ch) THEN Eager(readChar(l), readNumberLoop) ELSE l

readNumber(l) ==
    LET after == readNumberLoop(l)
    IN  [l |-> after, lit |-> SubSeq(l.input, l.position + 1, after.position)]

\* the loop of readString, b the bytes written to the builder so far
RECURSIVE readStringLoop(_, _)
readStringLoop(l, b) ==
    IF l.ch = 34 THEN [l |-> l, lit |-> b, ok |-> TRUE]
    ELSE IF l.ch = 0 THEN [l |-> l, lit |-> b, ok |-> FALSE]
    ELSE IF l.ch = 92
    THEN LET e == readChar(l)
             written == CASE e.ch = 110 -> <<10>>
                          [] e.ch = 116 -> <<9>>
                          [] e.ch = 114 -> <<13>>
                          [] e.ch = 34 -> <<34>>
                          [] e.ch = 92 -> <<92>>
                          [] OTHER -> <<92, e.ch>>
         IN  IF e.ch = 0 THEN [l |-> e, lit |-> b, ok |-> FALSE]
             ELSE CHOOSE r \in {readStringLoop(w, b \o written) : w \in {readChar(e)}} : TRUE
    ELSE CHOOSE r \in {readStringLoop(w, Append(b, l.ch)) : w \in {readChar(l)}} : TRUE

\* readStringLoop that keeps the backslash and the character of every escape
RECURSIVE readStringLoop_RawEscapes(_, _)
readStringLoop_RawEscapes(l, b) ==
    IF l.ch = 34 THEN [l |-> l, lit |-> b, ok |-> TRUE]
    ELSE IF l.ch = 0 THEN [l |-> l, lit |-> b, ok |-> FALSE]
    ELSE IF l.ch = 92
    THEN LET e == readChar(l)
         IN  IF e.ch = 0 THEN [l |-> e, lit |-> b, ok |-> FALSE]
             ELSE CHOOSE r \in {readStringLoop_RawEscapes(w, b \o <<92, e.ch>>) : w \in {readChar(e)}} : TRUE
    ELSE CHOOSE r \in {readStringLoop_RawEscapes(w, Append(b, l.ch)) : w \in {readChar(l)}} : TRUE

\* readString that replaces no escape
readString_RawEscapes(l) == readStringLoop_RawEscapes(readChar(l), <<>>)

readString(l) == readStringLoop(readChar(l), <<>>)

\* "unterminated string"
UnterminatedString ==
    <<117, 110, 116, 101, 114, 109, 105, 110, 97, 116, 101, 100, 32, 115, 116, 114, 105, 110, 103>>

\* the tokens of one character that NextToken returns after one readChar
SingleCharTokens ==
    [ch \in {43, 45, 47, 42, 59, 58, 44, 40, 41, 123, 125, 91, 93} |->
        CASE ch = 43 -> "Plus" [] ch = 45 -> "Minus" [] ch = 47 -> "Slash"
          [] ch = 42 -> "Asterisk" [] ch = 59 -> "Semicolon" [] ch = 58 -> "Colon"
          [] ch = 44 -> "Comma" [] ch = 40 -> "Lparen" [] ch = 41 -> "Rparen"
          [] ch = 123 -> "Lbrace" [] ch = 125 -> "Rbrace" [] ch = 91 -> "Lbracket"
          [] OTHER -> "Rbracket"]

\* the tokens of = ! < > alone and followed by =
PairTokens ==
    [ch \in {61, 33, 60, 62} |->
        CASE ch = 61 -> <<"Assign", "Eq">> [] ch = 33 -> <<"Bang", "NotEq">>
          [] ch = 60 -> <<"Lt", "Lte">> [] OTHER -> <<"Gt", "Gte">>]

\* NextToken after skipWhitespace: the lexer afterwards and the token
NextTokenAt(l) ==
    CASE l.ch \in DOMAIN PairTokens ->
            IF peekChar(l) = 61
            THEN [l |-> readChar(readChar(l)), tok |-> Token(PairTokens[l.ch][2], <<l.ch, 61>>)]
            ELSE [l |-> readChar(l), tok |-> Token(PairTokens[l.ch][1], <<l.ch>>)]
      [] l.ch \in DOMAIN SingleCharTokens ->
            [l |-> readChar(l), tok |-> Token(SingleCharTokens[l.ch], <<l.ch>>)]
      [] l.ch = 34 ->
            LET s == readString(l)
            IN  IF ~s.ok THEN [l |-> s.l, tok |-> Token("Illegal", UnterminatedString)]
                ELSE [l |-> readChar(s.l), tok |-> Token("String", s.lit)]
      [] l.ch = 0 -> [l |-> l, tok |-> Token("EOF", <<>>)]
      [] OTHER ->
            IF isLetter(l.ch)
            THEN LET i == readIdentifier(l)
                 IN  [l |-> i.l, tok |-> Token(LookupIdent(i.lit), i.lit)]
            ELSE IF isDigit(l.ch)
            THEN LET n == readNumber(l)
                 IN  [l |-> n.l, tok |-> Token("Int", n.lit)]
            ELSE [l |-> readChar(l), tok |-> Token("Illegal", <<l.ch>>)]

NextToken(l) == Eager(skipWhitespace(l), NextTokenAt)

\* longest input drawn from the alphabet, and most NextToken calls
MaxInput == 4
MaxTokens == 6

\* n _ 1 / " \ newline NUL
Alphabet == {110, 95, 49, 47, 34, 92, 10, 0}

\* "\t\r\n" in quotes; //, NUL, newline, n; fn; n1__1 n;
\* "n//1" //n"1 newline /1
LongInputs ==
    {<<34, 92, 116, 92, 114, 92, 110, 34>>,
     <<47, 47, 0, 10, 110>>,
     <<102, 110>>,
     <<110, 49, 95, 95, 49, 32, 110>>,
     <<34, 110, 47, 47, 49, 34, 32, 47, 47, 110, 34, 49, 10, 47, 49>>}

RECURSIVE StringsOver(_, _)
StringsOver(chars, n) ==
    IF n = 0 THEN {<<>>}
    ELSE LET shorter == StringsOver(chars, n - 1)
         IN  shorter \cup {Append(str, ch) : str \in {z \in shorter : Len(z) = n - 1}, ch \in chars}

Inputs == StringsOver(Alphabet, MaxInput) \cup LongInputs

LexInit ==
    /\ DisIdle
    /\ SymIdle
    /\ HostIdle
    /\ CodecIdle
    /\ ReplIdle
    /\ ArrIdle
    /\ HashIdle
    /\ \E input \in Inputs :
          lex = [pc |-> "run", l |-> NewLexer(input), toks |-> <<>>]

\* one call of NextToken; with the token, the position it was found at
LexNextToken ==
    /\ lex.pc = "run"
    /\ Len(lex.toks) < MaxTokens
    /\ LET r == NextToken(lex.l)
           at == skipWhitespace(lex.l).position
       IN  lex' = [lex EXCEPT !.l = r.l,
                              !.toks = Append(lex.toks, [Type |-> r.tok.Type,
                                                         Literal |-> r.tok.Literal,
                                                         at |-> at])]
    /\ UNCHANGED notLex

LexNext == LexNextToken
LexSpec == LexInit /\ [][LexNext]_vars

(***************************************************************************)
(* Properties of the lexer.                                                *)
(***************************************************************************)
\* the tokens returned so far, and the first k tokens of a lexer
Returned == [k \in 1..Len(lex.toks) |-> Token(lex.toks[k].Type, lex.toks[k].Literal)]

RECURSIVE Lexed(_, _)
Lexed(l, k) ==
    IF k = 0 THEN <<>>
    ELSE CHOOSE r \in {<<w.tok>> \o Lexed(w.l, k - 1) : w \in {NextToken(l)}} : TRUE

\* a letter, a digit or an underscore
IdentChar(ch) ==
    (97 <= ch /\ ch <= 122) \/ (65 <= ch /\ ch <= 90) \/ (48 <= ch /\ ch <= 57) \/ ch = 95

\* the end of the longest run of such characters that starts at p
RECURSIVE RunEnd(_, _)
RunEnd(input, p) ==
    IF p < Len(input) /\ IdentChar(At(input, p)) THEN RunEnd(input, p + 1) ELSE p

\* C27: a token that starts with a letter or an underscore is the whole
\* longest run of letters, digits and underscores that starts there, as one
\* Ident token (or the keyword it spells).
C27_IdentifierMaximal ==
    lex.pc = "run" =>
        \A k \in 1..Len(lex.toks) :
           LET t == lex.toks[k]
               input == lex.l.input
           IN  (t.at < Len(input) /\ IdentChar(At(input, t.at)) /\ ~isDigit(At(input, t.at))) =>
                  /\ t.Literal = SubSeq(input, t.at + 1, RunEnd(input, t.at))
                  /\ t.Type = LookupIdent(t.Literal)

\* n1__1 n  gave the tokens n, 1, __, 1 and n
C27_SplitAtDigit ==
    /\ lex.pc = "run"
    /\ lex.l.input = <<110, 49, 95, 95, 49, 32, 110>>
    /\ Returned = <<Token("Ident", <<110>>), Token("Int", <<49>>), Token("Ident", <<95, 95>>),
                    Token("Int", <<49>>), Token("Ident", <<110>>), Token("EOF", <<>>)>>

\* the input up to its first NUL byte
RECURSIVE UpToNUL(_)
UpToNUL(input) ==
    IF input = <<>> \/ Head(input) = 0 THEN <<>> ELSE <<Head(input)>> \o UpToNUL(Tail(input))

\* the input without its comments: from p on, in code, in a string literal
\* or in a comment
RECURSIVE Strip(_, _, _)
Strip(input, p, mode) ==
    IF p >= Len(input) THEN <<>>
    ELSE LET ch == At(input, p)
         IN  CASE mode = "code" ->
                    IF ch = 34 THEN <<ch>> \o Strip(input, p + 1, "string")
                    ELSE IF ch = 47 /\ p + 1 < Len(input) /\ At(input, p + 1) = 47
                    THEN Strip(input, p + 2, "comment")
                    ELSE <<ch>> \o Strip(input, p + 1, "code")
               [] mode = "string" ->
                    IF ch = 92 /\ p + 1 < Len(input)
                    THEN <<ch, At(input, p + 1)>> \o Strip(input, p + 2, "string")
                    ELSE IF ch = 34 THEN <<ch>> \o Strip(input, p + 1, "code")
                    ELSE <<ch>> \o Strip(input, p + 1, "string")
               [] OTHER ->
                    IF ch = 10 THEN Strip(input, p, "code") ELSE Strip(input, p + 1, "comment")

StripComments(input) == Strip(input, 0, "code")

\* the position of the quote that closes the literal whose content starts
\* at p, -1 if the input ends before it
RECURSIVE ClosingQuote(_, _)
ClosingQuote(input, p) ==
    IF p >= Len(input) THEN -1
    ELSE IF At(input, p) = 34 THEN p
    ELSE IF At(input, p) = 92
    THEN (IF p + 1 >= Len(input) THEN -1 ELSE ClosingQuote(input, p + 2))
    ELSE ClosingQuote(input, p + 1)

\* the characters that follow a backslash in input[p:q]
RECURSIVE Escaped(_, _, _)
Escaped(input, p, q) ==
    IF p >= q THEN {}
    ELSE IF At(input, p) = 92 THEN {At(input, p + 1)} \cup Escaped(input, p + 2, q)
    ELSE Escaped(input, p + 1, q)

\* input[p:q] with \n, \t, \r, \" and \\ replaced by what they denote
RECURSIVE Unescape(_, _, _)
Unescape(input, p, q) ==
    IF p >= q THEN <<>>
    ELSE IF At(input, p) = 92
    THEN LET e == At(input, p + 1)
         IN  <<CASE e = 110 -> 10 [] e = 116 -> 9 [] e = 114 -> 13 [] OTHER -> e>>
                \o Unescape(input, p + 2, q)
    ELSE <<At(input, p)>> \o Unescape(input, p + 1, q)

\* what the lexer returned agrees with the text input about comments
CommentsIgnored(input) ==
    /\ Returned = Lexed(NewLexer(StripComments(input)), Len(lex.toks))
    /\ \A k \in 1..Len(lex.toks) :
          LET t == lex.toks[k]
              q == ClosingQuote(input, t.at + 1)
          IN  /\ (t.at < Len(input) /\ At(input, t.at) = 47
                    /\ (t.at + 1 >= Len(input) \/ At(input, t.at + 1) # 47)) =>
                       t.Type = "Slash"
              /\ (t.at < Len(input) /\ At(input, t.at) = 34 /\ q >= 0
                    /\ Escaped(input, t.at + 1, q) = {}) =>
                       /\ t.Type = "String"
                       /\ t.Literal = SubSeq(input, t.at + 2, q)

StringLiterals(input) ==
    \A k \in 1..Len(lex.toks) :
       LET t == lex.toks[k]
           q == ClosingQuote(input, t.at + 1)
       IN  (t.at < Len(input) /\ At(input, t.at) = 34) =>
              /\ q = -1 =>
                    /\ t.Type = "Illegal" /\ t.Literal = UnterminatedString
                    /\ \A j \in (k + 1)..Len(lex.toks) : lex.toks[j].Type = "EOF"
              /\ q >= 0 =>
                    /\ t.Type = "String"
                    /\ Escaped(input, t.at + 1, q) \subseteq {110, 116, 114, 34, 92} =>
                          t.Literal = Unescape(input, t.at + 1, q)

C29_Unterminated ==
    /\ lex.pc = "run"
    /\ lex.l.input = <<34, 110, 92>>
    /\ Len(lex.toks) = 3
    /\ lex.toks[1].Type = "Illegal" /\ lex.toks[1].Literal = UnterminatedString
    /\ lex.toks[2].Type = "EOF" /\ lex.toks[3].Type = "EOF"

====
